---- MODULE Spec2Model ----
(***************************************************************************)
(* Vibration-analysis MCP server: the in-memory signal store               *)
(* (data_store.py), the way the tool layer reads it (server.py), the       *)
(* feature extraction, the rule-based fault classifier and the ISO 10816   *)
(* severity zones (fault_detection.py), the bearing peak check             *)
(* (envelope.py), the peak search (fft_analysis.py) and the bearing        *)
(* catalog (bearing_freqs.py).                                             *)
(*                                                                         *)
(* numpy arrays are objects with identity: the model keeps a heap of       *)
(* arrays (dtype, shape, flat row-major buffer) and the store's entries    *)
(* refer to them, so that np.asarray returning its argument unchanged is   *)
(* visible as aliasing.                                                    *)
(*                                                                         *)
(* Real numbers are fixed-point integers.  Statistics of a summary are in  *)
(* units of 1/StatScale; features of the classifier are in units of        *)
(* 1/FeatScale.                                                            *)
(***************************************************************************)
EXTENDS Integers, Sequences, FiniteSets, TLC

VARIABLES
  entries,   \* DataStore._entries: [keys: insertion order, vals: key -> DataEntry]
  heap,      \* live numpy arrays: ref -> [dtype, shape, data]
  held,      \* refs of the arrays the calling code still holds
  call,      \* the last call made: [op, ...arguments]
  ret,       \* what the last call returned or raised, as a record named by the call
  lastPut,   \* history: id -> arguments of the last put(id) not followed by remove(id)
  threads,   \* the threads calling into the store: thread -> its call and position
  features,  \* the ShaftFeatures given to classify_faults
  bearing_results,  \* the bearing_results given to classify_faults
  diagnoses, \* what classify_faults returned (None before the call)
  args,      \* the arguments of the analysis function or tool called
  out,       \* what that call returned (None before the call)
  manager,   \* the DataLog2Manager: its connection, logging flag and lists
  device,    \* the board: whether it is logging
  last       \* the last call to the manager: [op, steps it went through, ret]

storeVars == <<entries, heap, held, call, ret, lastPut>>

classifierVars == <<features, bearing_results, diagnoses>>

analysisVars == <<args, out>>

sensorVars == <<manager, device, last>>

vars == <<entries, heap, held, call, ret, lastPut, threads, features, bearing_results,
          diagnoses, args, out, manager, device, last>>

-----------------------------------------------------------------------------
(* Bounds of the model *)

MaxEntries == 2    \* entries stored at once

NThreads == 2      \* threads calling into the store at once

MaxCalls == 2      \* calls each thread makes

(* Program constants *)

StatScale == 1000  \* fixed-point unit of the summary statistics
PrefixBytes == 1024
TimeMod == 100000

FeatScale == 10    \* fixed-point unit of the features and of the thresholds below

\* the thresholds of classify_faults, in 1/FeatScale
UnbalanceRatio == 30
UnbalanceHighRatio == 50
UnbalanceDominance == 20
MisalignmentRatio == 25
MisalignmentShare == 5
LoosenessRatio == 15
LoosenessHarmonics == 3
KurtosisLimit == 40
CrestLimit == 50

\* the fallback rms 1e-12 is (1 / TinyRmsInvRoot)^2
TinyRmsInvRoot == 1000000

-----------------------------------------------------------------------------
(* Generic helpers *)

Restrict(f, S) == [x \in S |-> f[x]]

Range(s) == {s[i] : i \in DOMAIN s}

Min(a, b) == IF a <= b THEN a ELSE b

Abs(x) == IF x < 0 THEN -x ELSE x

RECURSIVE SumSeq(_)
SumSeq(s) == IF s = <<>> THEN 0 ELSE Head(s) + SumSeq(Tail(s))

RECURSIVE MaxSeq(_)
MaxSeq(s) == IF Len(s) = 1 THEN s[1]
             ELSE LET m == MaxSeq(Tail(s)) IN IF s[1] >= m THEN s[1] ELSE m

\* floor of the square root, by bisection of lo..hi
RECURSIVE ISqrtBetween(_, _, _)
ISqrtBetween(v, lo, hi) ==
  IF lo >= hi THEN lo
  ELSE LET mid == (lo + hi + 1) \div 2
       IN IF mid * mid <= v THEN ISqrtBetween(v, mid, hi) ELSE ISqrtBetween(v, lo, mid - 1)

ISqrt(v) == ISqrtBetween(v, 0, Min(v, 46340))

\* an absent optional value (Python None) is <<>>, a present one is <<v>>
None == <<>>

Some(v) == <<v>>

IsNone(o) == Len(o) = 0

-----------------------------------------------------------------------------
(* numpy arrays *)

\* shape[0] of an array
NSamples(a) == a.shape[1]

\* number of columns once a 1-D array is reshaped to (-1, 1)
NCols(a) == IF Len(a.shape) > 1 THEN a.shape[2] ELSE 1

\* sig[:, i] of the array reshaped to two dimensions, i counted from 0
Column(a, i) == [r \in 1..NSamples(a) |-> a.data[(r - 1) * NCols(a) + i + 1]]

ItemSize(dtype) == IF dtype = "float64" THEN 8 ELSE 4

\* the bytes of the items one after the other; the bytes of one item are
\* its value in the first byte and zero padding after it
BytesOf(data, dtype) ==
  LET size == ItemSize(dtype)
  IN [b \in 1..(Len(data) * size) |->
        IF (b - 1) % size = 0 THEN data[(b - 1) \div size + 1] % 256 ELSE 0]

\* ndarray.tobytes()
tobytes(a) == BytesOf(a.data, a.dtype)

\* hashlib.md5(b).hexdigest()[:8], abstracted to one of two digests: a
\* function of the bytes alone, under which different byte strings may collide
\* Md5Acc is the sum of i * b[i] over lo..hi modulo 251, added up by halves
RECURSIVE Md5Acc(_, _, _)
Md5Acc(b, lo, hi) ==
  IF lo > hi THEN 0
  ELSE IF lo = hi THEN (lo * b[lo]) % 251
  ELSE (Md5Acc(b, lo, (lo + hi) \div 2) + Md5Acc(b, (lo + hi) \div 2 + 1, hi)) % 251

md5hex8(b) == IF (Md5Acc(b, 1, Len(b)) + Len(b) \div 4) % 2 = 0 THEN "0f343b09" ELSE "d41d8cd9"

\* the arrays are numbered 1..Len(heap)
FreshRef(h) == Len(h) + 1

\* np.asarray(signal, dtype=np.float64): an array that already is float64 is
\* returned as it is (no copy); anything else is converted into a new array.
\* The conversion to float64 keeps every value of a list of floats or of a
\* float32 array.
asarray(h, signal) ==
  IF signal.kind = "ndarray" /\ h[signal.ref].dtype = "float64"
  THEN [ref |-> signal.ref, heap |-> h]
  ELSE LET r == FreshRef(h)
           src == IF signal.kind = "ndarray" THEN h[signal.ref] ELSE signal
       IN [ref |-> r,
           heap |-> Append(h, [dtype |-> "float64", shape |-> src.shape,
                               data |-> src.data])]

\* the values of the signal passed to a call, as the caller sees them
ValuesOf(h, signal) ==
  IF signal.kind = "ndarray"
  THEN [shape |-> h[signal.ref].shape, data |-> h[signal.ref].data]
  ELSE [shape |-> signal.shape, data |-> signal.data]

-----------------------------------------------------------------------------
(* Metadata dictionaries: one optional value per key *)

NoMetadata == [sensor |-> None, axis_labels |-> None, source_file |-> None]

\* metadata or {}
MetadataOrEmpty(metadata) == IF IsNone(metadata) \/ metadata[1] = NoMetadata
                             THEN NoMetadata ELSE metadata[1]

-----------------------------------------------------------------------------
(* DataEntry *)

\* DataEntry.n_samples
n_samples(h, e) == NSamples(h[e.signal])

\* DataEntry.n_channels
n_channels(h, e) == IF Len(h[e.signal].shape) > 1 THEN h[e.signal].shape[2] ELSE 1

\* DataEntry.duration_s, in 1/StatScale s
duration_s(h, e) == IF e.sample_rate > 0
                    THEN (n_samples(h, e) * StatScale) \div e.sample_rate ELSE 0

\* _kurtosis(x), in 1/100: excess kurtosis with the sample standard deviation
kurtosis_of(x) ==
  LET n == Len(x)
      S == SumSeq(x)
      Q == SumSeq([i \in 1..n |-> x[i] * x[i]])
      v == n * Q - S * S                 \* n(n-1) s^2
      m4 == SumSeq([i \in 1..n |-> (n * x[i] - S) * (n * x[i] - S)
                                    * (n * x[i] - S) * (n * x[i] - S)])
  IN IF n < 4 THEN 0
     ELSE IF v = 0 THEN 0
     ELSE (100 * m4 * (n - 1) * (n - 1)) \div (n * n * n * v * v) - 300

\* the statistics of one column (lines 58-67); the column is not empty
ColumnStats(col) ==
  LET n == Len(col)
      S == SumSeq(col)
      Q == SumSeq([i \in 1..n |-> col[i] * col[i]])
      pk == MaxSeq([i \in 1..n |-> Abs(col[i])])
      rms == ISqrt((Q * StatScale * StatScale) \div n)
  IN [mean |-> (S * StatScale) \div n,
      std |-> ISqrt(((n * Q - S * S) * StatScale * StatScale) \div (n * n)),
      rms |-> rms,
      peak |-> pk * StatScale,
      crest_factor |-> IF Q > 0 THEN (pk * StatScale * 100) \div rms ELSE 0,
      kurtosis |-> kurtosis_of(col)]

DefaultLabels(ncols) ==
  IF ncols <= 3 THEN SubSeq(<<"X", "Y", "Z">>, 1, ncols)
  ELSE [i \in 1..ncols |-> "CH" \o ToString(i - 1)]

\* the loop of lines 57-67 from the i-th label on: the statistics per label,
\* or the exception the loop raises.  np.max of an empty column raises
\* ValueError; a label beyond the last column raises IndexError.
RECURSIVE ChannelStats(_, _, _, _)
ChannelStats(a, labels, i, acc) ==
  IF i > Len(labels) THEN [ok |-> TRUE, val |-> acc]
  ELSE IF i - 1 >= NCols(a) THEN [ok |-> FALSE, exc |-> "IndexError"]
  ELSE IF NSamples(a) = 0 THEN [ok |-> FALSE, exc |-> "ValueError"]
  ELSE ChannelStats(a, labels, i + 1,
         [l \in DOMAIN acc \cup {labels[i]} |->
            IF l = labels[i] THEN ColumnStats(Column(a, i - 1)) ELSE acc[l]])

\* DataEntry.summary()
summary(h, e) ==
  LET a == h[e.signal]
      labels == IF IsNone(e.metadata.axis_labels) THEN DefaultLabels(NCols(a))
                ELSE e.metadata.axis_labels[1]
      stats == ChannelStats(a, labels, 1, <<>>)
  IN IF ~stats.ok THEN stats
     ELSE [ok |-> TRUE,
           val |-> [n_samples |-> n_samples(h, e),
                    n_channels |-> n_channels(h, e),
                    sample_rate_hz |-> e.sample_rate,
                    duration_s |-> duration_s(h, e),
                    channel_stats |-> stats.val,
                    metadata |-> [e.metadata EXCEPT !.axis_labels = None]]]

-----------------------------------------------------------------------------
(* The dictionary DataStore._entries *)

EmptyDict == [keys |-> <<>>, vals |-> <<>>]

StoredIds(d) == DOMAIN d.vals

\* a bounded cache in place of the dictionary: with two keys stored, a new key
\* pushes the oldest out
DictSetEvicting(d, k, v) ==
  LET full == k \notin DOMAIN d.vals /\ Len(d.keys) >= 2
      ks == IF full THEN Tail(d.keys) ELSE d.keys
      dom == IF full THEN DOMAIN d.vals \ {Head(d.keys)} ELSE DOMAIN d.vals
  IN [keys |-> IF k \in dom THEN ks ELSE Append(ks, k),
      vals |-> [x \in dom \cup {k} |-> IF x = k THEN v ELSE d.vals[x]]]

\* d[k] = v: an existing key keeps its place, a new key goes last
DictSet(d, k, v) ==
  [keys |-> IF k \in DOMAIN d.vals THEN d.keys ELSE Append(d.keys, k),
   vals |-> [x \in DOMAIN d.vals \cup {k} |-> IF x = k THEN v ELSE d.vals[x]]]

\* d.pop(k, None)
DictPop(d, k) ==
  [keys |-> SelectSeq(d.keys, LAMBDA x : x # k),
   vals |-> Restrict(d.vals, DOMAIN d.vals \ {k})]

-----------------------------------------------------------------------------
(* DataStore: each method maps the store (entries, heap) to the store after *)
(* the call and the value returned                                          *)

\* put as dict.setdefault: a stored id keeps its entry
put_setdefault(d, h, t, data_id, signal, sample_rate, metadata) ==
  LET arr == asarray(h, signal)
  IN [entries |-> IF data_id \in DOMAIN d.vals THEN d
                  ELSE DictSet(d, data_id,
                         [signal |-> arr.ref, sample_rate |-> sample_rate,
                          created_at |-> t, metadata |-> MetadataOrEmpty(metadata)]),
      heap |-> arr.heap,
      ret |-> data_id]

\* put as an update: the metadata keys the call does not give keep the values
\* of the entry stored before
put_update(d, h, t, data_id, signal, sample_rate, metadata) ==
  LET arr == asarray(h, signal)
      new == MetadataOrEmpty(metadata)
      old == IF data_id \in DOMAIN d.vals THEN d.vals[data_id].metadata ELSE NoMetadata
  IN [entries |-> DictSet(d, data_id,
                    [signal |-> arr.ref, sample_rate |-> sample_rate,
                     created_at |-> t,
                     metadata |-> [f \in DOMAIN new |->
                                     IF IsNone(new[f]) THEN old[f] ELSE new[f]]]),
      heap |-> arr.heap,
      ret |-> data_id]

\* DataStore.put
put(d, h, t, data_id, signal, sample_rate, metadata) ==
  LET arr == asarray(h, signal)
  IN [entries |-> DictSet(d, data_id,
                    [signal |-> arr.ref, sample_rate |-> sample_rate,
                     created_at |-> t, metadata |-> MetadataOrEmpty(metadata)]),
      heap |-> arr.heap,
      ret |-> data_id]

\* the id built from the hash of the whole signal
AutoIdWholeSignal(h, t, signal) ==
  "sig_" \o md5hex8(tobytes(h[signal.ref])) \o "_" \o ToString(t % TimeMod)

\* the id put_auto builds
AutoId(h, t, signal) ==
  LET b == tobytes(h[signal.ref])
      hh == md5hex8(SubSeq(b, 1, Min(PrefixBytes, Len(b))))
  IN "sig_" \o hh \o "_" \o ToString(t % TimeMod)

\* DataStore.put_auto
put_auto(d, h, t, signal, sample_rate, metadata) ==
  put(d, h, t, AutoId(h, t, signal), signal, sample_rate, metadata)

\* DataStore.get: the entry, or None
get(d, data_id) == IF data_id \in DOMAIN d.vals THEN Some(d.vals[data_id]) ELSE None

\* DataStore.remove
remove(d, data_id) == [entries |-> DictPop(d, data_id), ret |-> data_id \in DOMAIN d.vals]

\* DataStore.list_ids
list_ids(d) == d.keys

\* DataStore.list_entries: {"data_id": k, **v.summary()} for every item in the
\* dictionary's order, or the first exception a summary raises
RECURSIVE ListFrom(_, _, _, _)
ListFrom(d, h, i, acc) ==
  IF i > Len(d.keys) THEN [ok |-> TRUE, val |-> acc]
  ELSE LET k == d.keys[i]
           s == summary(h, d.vals[k])
       IN IF ~s.ok THEN s
          ELSE ListFrom(d, h, i + 1,
                 Append(acc, [f \in {"data_id"} \cup DOMAIN s.val |->
                                IF f = "data_id" THEN k ELSE s.val[f]]))

list_entries(d, h) == ListFrom(d, h, 1, <<>>)

-----------------------------------------------------------------------------
(* server.py: how every analysis tool reads its signal *)

\* str.upper() and str.isdigit() of the channel names and bearing
\* designations used
Upper(channel) == CASE channel = "x" -> "X"
                    [] channel = "y" -> "Y"
                    [] channel = "z" -> "Z"
                    [] channel = "ch1" -> "CH1"
                    [] channel = "nu205" -> "NU205"
                    [] channel = "nu999" -> "NU999"
                    [] OTHER -> channel

DigitStrings == <<"0", "1", "2", "3", "4", "5", "6", "7", "8", "9">>

IsDigit(channel) == \E i \in DOMAIN DigitStrings : DigitStrings[i] = channel

IntOf(channel) == (CHOOSE i \in DOMAIN DigitStrings : DigitStrings[i] = channel) - 1

\* ch_map.get(channel.upper(), int(channel) if channel.isdigit() else 0)
ChannelIndex(channel) ==
  CASE Upper(channel) = "X" -> 0
    [] Upper(channel) = "Y" -> 1
    [] Upper(channel) = "Z" -> 2
    [] OTHER -> IF IsDigit(channel) THEN IntOf(channel) ELSE 0

\* _resolve_signal looking at the raw signal first and at the data_id only
\* when no signal is passed
resolve_signal_raw_first(d, h, data_id, signal, sample_rate, channel) ==
  IF ~IsNone(signal) /\ ~IsNone(sample_rate) /\ sample_rate[1] > 0
  THEN [ok |-> TRUE, sig |-> signal[1].data, sr |-> sample_rate[1], base |-> None]
  ELSE IF ~IsNone(data_id) /\ ~IsNone(get(d, data_id[1]))
  THEN LET entry == get(d, data_id[1])
           a == h[entry[1].signal]
           idx == Min(ChannelIndex(channel), NCols(a) - 1)
       IN [ok |-> TRUE,
           sig |-> IF Len(a.shape) > 1 THEN Column(a, idx) ELSE a.data,
           sr |-> entry[1].sample_rate,
           base |-> Some(entry[1].signal)]
  ELSE [ok |-> FALSE, exc |-> "ValueError", error |-> "not found in store",
        available |-> list_ids(d)]

\* _resolve_signal: the 1-D signal and its sample rate, or the ValueError.
\* A stored 1-D signal is returned as the stored array itself (base is its
\* ref), a column of a stored 2-D signal is a view of the stored array.
resolve_signal(d, h, data_id, signal, sample_rate, channel) ==
  IF ~IsNone(data_id)
  THEN LET entry == get(d, data_id[1])
       IN IF IsNone(entry)
          THEN [ok |-> FALSE, exc |-> "ValueError", error |-> "not found in store",
                available |-> list_ids(d)]
          ELSE LET a == h[entry[1].signal]
                   idx == Min(ChannelIndex(channel), NCols(a) - 1)
               IN [ok |-> TRUE,
                   sig |-> IF Len(a.shape) > 1 THEN Column(a, idx) ELSE a.data,
                   sr |-> entry[1].sample_rate,
                   base |-> Some(entry[1].signal)]
  ELSE IF ~IsNone(signal)
  THEN IF IsNone(sample_rate) \/ sample_rate[1] <= 0
       THEN [ok |-> FALSE, exc |-> "ValueError", error |-> "sample_rate is required",
             available |-> <<>>]
       ELSE [ok |-> TRUE, sig |-> signal[1].data, sr |-> sample_rate[1], base |-> None]
  ELSE [ok |-> FALSE, exc |-> "ValueError", error |-> "Provide either data_id or signal",
        available |-> <<>>]

-----------------------------------------------------------------------------
(* The values the calling code passes *)

DTypes == {"float64", "float32"}

\* a signal is passed as a list, as an array made for the call, or as an
\* array the calling code already holds
ListSignal(shape, data) == [kind |-> "list", shape |-> shape, data |-> data]

NewArray(dtype, shape, data) == [kind |-> "new", dtype |-> dtype, shape |-> shape, data |-> data]

HeldArrays(hd) == {[kind |-> "ndarray", ref |-> r] : r \in hd}

SensorMetadata == [NoMetadata EXCEPT !.sensor = Some("iis3dwb")]

\* the (signal, sample_rate, metadata) the calls are made with: an empty
\* list, a float32 array of one sample, a float64 array of two samples
PutArgs == {[signal |-> ListSignal(<<0>>, <<>>), sample_rate |-> 2,
             metadata |-> Some(SensorMetadata)],
            [signal |-> NewArray("float32", <<1>>, <<1>>), sample_rate |-> 0,
             metadata |-> None],
            [signal |-> NewArray("float64", <<2>>, <<-1, 1>>), sample_rate |-> 2,
             metadata |-> Some(SensorMetadata)]}

\* put_auto reads signal.tobytes(): it is called with arrays
AutoArgs == {a \in PutArgs : a.signal.kind = "new" /\ a.signal.dtype = "float64"}

\* the instants time.time() is read at (the wall clock is not monotonic)
Instants == {0, 1}

NamedIds == {"a"}

AutoIds == {"sig_" \o md5hex8(BytesOf(a.signal.data, a.signal.dtype)) \o "_"
              \o ToString(t % TimeMod) : a \in AutoArgs, t \in Instants}

\* a caller may choose any string as id, also one put_auto generates
Ids == NamedIds \cup AutoIds

-----------------------------------------------------------------------------
(* Reference counting: an array nobody refers to is freed.  Which number an *)
(* array has means nothing, so after every call the arrays are numbered in  *)
(* the order the entries, then the calling code, refer to them.             *)

EntryRefs(d) == {d.vals[k].signal : k \in DOMAIN d.vals}

RECURSIVE Distinct(_, _)
Distinct(s, seen) ==
  IF s = <<>> THEN <<>>
  ELSE IF Head(s) \in seen THEN Distinct(Tail(s), seen)
  ELSE <<Head(s)>> \o Distinct(Tail(s), seen \cup {Head(s)})

RECURSIVE SeqOfSet(_)
SeqOfSet(S) == IF S = {} THEN <<>>
               ELSE LET x == CHOOSE y \in S : \A z \in S : y <= z
                    IN <<x>> \o SeqOfSet(S \ {x})

RefOrder(d, hd) ==
  Distinct([i \in 1..Len(d.keys) |-> d.vals[d.keys[i]].signal] \o SeqOfSet(hd), {})

IndexIn(order, r) == CHOOSE i \in 1..Len(order) : order[i] = r

Collect(d, h, hd) ==
  LET order == RefOrder(d, hd)
  IN [entries |-> [keys |-> d.keys,
                   vals |-> [k \in DOMAIN d.vals |->
                               [d.vals[k] EXCEPT !.signal = IndexIn(order, @)]]],
      heap |-> [i \in 1..Len(order) |-> h[order[i]]],
      held |-> {IndexIn(order, r) : r \in hd}]

\* the signal argument once the calling code has made its array
Materialize(h, signal) ==
  IF signal.kind = "new"
  THEN LET r == FreshRef(h)
       IN [heap |-> Append(h, [dtype |-> signal.dtype, shape |-> signal.shape,
                               data |-> signal.data]),
           arg |-> [kind |-> "ndarray", ref |-> r],
           mine |-> {r}]
  ELSE [heap |-> h, arg |-> signal,
        mine |-> IF signal.kind = "ndarray" THEN {signal.ref} ELSE {}]

-----------------------------------------------------------------------------
(* The calls, one action each *)

\* store = DataStore(): no entry, no call made yet
InitStore ==
  /\ entries = EmptyDict
  /\ heap = <<>>
  /\ held = {}
  /\ call = [op |-> "init"]
  /\ ret = [nothing |-> TRUE]
  /\ lastPut = <<>>

\* DataLog2Manager.__init__ (datalog2_comm.py lines 77-86): no link, not
\* connected, not logging, no thread, stop flag or file.  hsd_link_instance
\* is TRUE for an HSDLink_v2 object and FALSE for None.  The board is not
\* logging.
InitManager ==
  /\ manager = [hsd_link_instance |-> FALSE, connected |-> FALSE, logging_active |-> FALSE,
                sensor_threads |-> <<>>, stop_flags |-> <<>>, sensor_files |-> <<>>]
  /\ device = [logging |-> FALSE]
  /\ last = [op |-> "init", steps |-> <<>>, ret |-> "none"]

\* no thread but the caller's, classify_faults not called
InitIdle ==
  /\ threads = <<>>
  /\ features = None
  /\ bearing_results = None
  /\ diagnoses = None
  /\ args = None
  /\ out = None
  /\ InitManager

Init == InitStore /\ InitIdle

\* what a put leaves behind; keep: the calling code keeps its array
StorePut(res, m, data_id, sample_rate, metadata, keep) ==
  LET hd == IF keep THEN held \cup m.mine ELSE held
      c == Collect(res.entries, res.heap, hd)
  IN /\ Cardinality(StoredIds(res.entries)) <= MaxEntries
     /\ Cardinality(hd) <= 1
     /\ entries' = c.entries
     /\ held' = c.held
     /\ heap' = c.heap
     /\ ret' = [data_id |-> res.ret]
     /\ lastPut' = [x \in DOMAIN lastPut \cup {data_id} |->
                      IF x = data_id
                      THEN [signal |-> ValuesOf(m.heap, m.arg),
                            sample_rate |-> sample_rate, metadata |-> metadata]
                      ELSE lastPut[x]]
     /\ UNCHANGED <<threads, classifierVars, analysisVars, sensorVars>>

Put(data_id, signal, sample_rate, metadata, t, keep) ==
  LET m == Materialize(heap, signal)
  IN /\ StorePut(put(entries, m.heap, t, data_id, m.arg, sample_rate, metadata),
                 m, data_id, sample_rate, metadata, keep)
     /\ call' = [op |-> "put", data_id |-> data_id]

PutAuto(signal, sample_rate, metadata, t, keep) ==
  LET m == Materialize(heap, signal)
      data_id == AutoId(m.heap, t, m.arg)
  IN /\ StorePut(put_auto(entries, m.heap, t, m.arg, sample_rate, metadata),
                 m, data_id, sample_rate, metadata, keep)
     /\ call' = [op |-> "put_auto", data_id |-> data_id, replaced |-> get(entries, data_id)]

Get(data_id) ==
  /\ ret' = [entry |-> get(entries, data_id)]
  /\ call' = [op |-> "get", data_id |-> data_id]
  /\ UNCHANGED <<entries, heap, held, lastPut, threads, classifierVars, analysisVars, sensorVars>>

Remove(data_id) ==
  LET res == remove(entries, data_id)
      c == Collect(res.entries, heap, held)
  IN /\ entries' = c.entries
     /\ heap' = c.heap
     /\ held' = c.held
     /\ ret' = [removed |-> res.ret]
     /\ call' = [op |-> "remove", data_id |-> data_id]
     /\ lastPut' = Restrict(lastPut, DOMAIN lastPut \ {data_id})
     /\ UNCHANGED <<threads, classifierVars, analysisVars, sensorVars>>

ListIds ==
  /\ ret' = [ids |-> list_ids(entries)]
  /\ call' = [op |-> "list_ids"]
  /\ UNCHANGED <<entries, heap, held, lastPut, threads, classifierVars, analysisVars, sensorVars>>

ListEntries ==
  /\ ret' = list_entries(entries, heap)
  /\ call' = [op |-> "list_entries"]
  /\ UNCHANGED <<entries, heap, held, lastPut, threads, classifierVars, analysisVars, sensorVars>>

\* an analysis tool (FFT, PSD, spectrogram, envelope, peak check, diagnosis)
\* called with a data_id: it resolves the signal and computes on copies
Analyze(data_id, channel) ==
  /\ ret' = resolve_signal(entries, heap, Some(data_id), None, None, channel)
  /\ call' = [op |-> "analyze", data_id |-> data_id]
  /\ UNCHANGED <<entries, heap, held, lastPut, threads, classifierVars, analysisVars, sensorVars>>

\* the tools that take a data_id
AnalysisTools == {"compute_fft_spectrum", "compute_power_spectral_density",
                  "compute_spectrogram_stft", "compute_envelope_spectrum",
                  "check_bearing_fault_peak", "check_bearing_faults_direct",
                  "diagnose_vibration"}

\* an analysis tool up to the point where it has its signal: the spectral
\* tools and diagnose_vibration call _resolve_signal(data_id, signal,
\* sample_rate, channel) and return {"error": str(e)} on its ValueError (lines
\* 171-174, 214-217, 259-262, 350-353, 678-681); the two bearing checks call
\* _resolve_signal(data_id, None, None, channel) when a data_id is given and
\* take the spectrum passed otherwise (lines 402-414, 542-554), signal
\* standing for that spectrum.  What a tool computes is kept as the signal
\* and the sample rate it computes on (sample rate None for a spectrum).
AnalysisTool(tool, data_id, signal, sample_rate, channel) ==
  /\ LET check == tool \in {"check_bearing_fault_peak", "check_bearing_faults_direct"}
         r == IF ~check
              THEN resolve_signal(entries, heap, data_id, signal, sample_rate, channel)
              ELSE IF ~IsNone(data_id)
              THEN resolve_signal(entries, heap, data_id, None, None, channel)
              ELSE IF ~IsNone(signal)
              THEN [ok |-> TRUE, sig |-> signal[1].data, sr |-> None, base |-> None]
              ELSE [ok |-> FALSE, exc |-> "none", error |-> "Provide data_id or spectrum",
                    available |-> <<>>]
     IN ret' = IF r.ok THEN [computed_on |-> r.sig, sample_rate |-> r.sr]
               ELSE [error |-> [message |-> r.error, available |-> r.available]]
  /\ call' = [op |-> tool, data_id |-> data_id, signal |-> signal, channel |-> channel]
  /\ UNCHANGED <<entries, heap, held, lastPut, threads, classifierVars, analysisVars, sensorVars>>

Next ==
  \/ \E data_id \in Ids, a \in PutArgs, t \in Instants :
       Put(data_id, a.signal, a.sample_rate, a.metadata, t, FALSE)
  \/ \E a \in AutoArgs, t \in Instants :
       PutAuto(a.signal, a.sample_rate, a.metadata, t, FALSE)
  \/ \E data_id \in Ids : Get(data_id)
  \/ \E data_id \in Ids : Remove(data_id)
  \/ ListIds
  \/ ListEntries
  \/ \E data_id \in Ids : Analyze(data_id, "X")

Spec == Init /\ [][Next]_vars

\* signals are stored and removed, and the tools are called with a data_id,
\* with a raw signal (of one sample or of none, at a sample rate that is
\* positive or zero), with both and with neither; one sample of four
\* channels is stored too, and a channel is asked for by a label or an index
NextTools ==
  \/ \E data_id \in Ids, a \in PutArgs :
       Put(data_id, a.signal, a.sample_rate, a.metadata, 0, FALSE)
  \/ \E data_id \in NamedIds :
       Put(data_id, NewArray("float64", <<1, 4>>, <<1, 2, 3, 4>>), 2, None, 0, FALSE)
  \/ \E data_id \in Ids : Remove(data_id)
  \/ \E tool \in AnalysisTools, data_id \in {None} \cup {Some(i) : i \in Ids},
        signal \in {None, Some(ListSignal(<<1>>, <<1>>))} :
       AnalysisTool(tool, data_id, signal, Some(2), "X")
  \/ \E data_id \in {None} \cup {Some(i) : i \in Ids},
        raw \in {<<ListSignal(<<1>>, <<1>>), 0>>, <<ListSignal(<<0>>, <<>>), 2>>} :
       AnalysisTool("compute_fft_spectrum", data_id, Some(raw[1]), Some(raw[2]), "X")
  \/ \E data_id \in NamedIds, channel \in {"z", "CH1", "3", "5"} :
       AnalysisTool("compute_fft_spectrum", Some(data_id), None, None, channel)

SpecTools == Init /\ [][NextTools]_vars

\* put_auto called on signals longer than the prefix that is hashed: 129
\* float64 samples are 1032 bytes.  A signal is stored at 0 s and at 1 s, a
\* signal that differs from it in the last sample only at 0 s and at
\* TimeMod s, and one that differs from it in the first sample at 0 s (c is
\* the first sample, the last sample and the time).
NextAuto ==
  \/ \E c \in {<<1, 1, 0>>, <<1, 1, 1>>, <<1, 2, 0>>, <<1, 2, TimeMod>>, <<2, 1, 0>>} :
       PutAuto(NewArray("float64", <<129>>, <<c[1]>> \o [i \in 1..127 |-> 1] \o <<c[2]>>),
               2, None, c[3], FALSE)
  \/ \E data_id \in StoredIds(entries) : Get(data_id)
  \/ \E data_id \in StoredIds(entries) : Remove(data_id)

SpecAuto == Init /\ [][NextAuto]_vars

-----------------------------------------------------------------------------
(* The calling code keeps the arrays it passes and writes to the arrays it *)
(* holds or is handed                                                      *)

\* the values written in place
WriteValues == {9}

\* arr[i] = v on the array r
SetItem(h, r, i, v) == [h EXCEPT ![r].data[i] = v]

\* the code that called put writes to the array it passed: signal[i] = v
CallerWrite(r, i, v) ==
  /\ r \in held
  /\ i \in DOMAIN heap[r].data
  /\ heap' = SetItem(heap, r, i, v)
  /\ call' = [op |-> "caller_write"]
  /\ ret' = [nothing |-> TRUE]
  /\ UNCHANGED <<entries, held, lastPut, threads, classifierVars, analysisVars, sensorVars>>

\* the code that called get writes to the array of the entry it was handed:
\* store.get(data_id).signal[i] = v
ReaderWrite(i, v) ==
  /\ call.op = "get"
  /\ ~IsNone(ret.entry)
  /\ i \in DOMAIN heap[ret.entry[1].signal].data
  /\ heap' = SetItem(heap, ret.entry[1].signal, i, v)
  /\ call' = [op |-> "reader_write"]
  /\ ret' = [nothing |-> TRUE]
  /\ UNCHANGED <<entries, held, lastPut, threads, classifierVars, analysisVars, sensorVars>>

NextAlias ==
  \/ \E data_id \in NamedIds, a \in PutArgs, t \in Instants, keep \in BOOLEAN :
       Put(data_id, a.signal, a.sample_rate, a.metadata, t, keep)
  \/ \E a \in AutoArgs, s \in HeldArrays(held), t \in Instants :
       PutAuto(s, a.sample_rate, a.metadata, t, TRUE)
  \/ \E data_id \in Ids : Get(data_id)
  \/ \E data_id \in Ids : Remove(data_id)
  \/ \E data_id \in Ids : Analyze(data_id, "X")
  \/ \E r \in held, i \in 1..2, v \in WriteValues : CallerWrite(r, i, v)
  \/ \E i \in 1..2, v \in WriteValues : ReaderWrite(i, v)

SpecAlias == Init /\ [][NextAlias]_vars

-----------------------------------------------------------------------------
(* fault_detection.py: classify_faults.  A ShaftFeatures is a record of the *)
(* amplitudes, rms_overall, crest_factor and kurtosis in 1/FeatScale; a      *)
(* FaultDiagnosis is kept as its fault_type, confidence and description (the *)
(* evidence and recommendation texts decide nothing).                        *)

\* x / rms > limit, where rms = features.rms_overall if it is > 0 else 1e-12
RatioAbove(x, rms_overall, limit) ==
  IF rms_overall > 0
  THEN x * FeatScale > limit * rms_overall
  ELSE x * TinyRmsInvRoot > limit \div TinyRmsInvRoot

FaultDiagnosis(fault_type, confidence, description) ==
  [fault_type |-> fault_type, confidence |-> confidence, description |-> description]

\* the unbalance rule with >= in place of > on the ratio
UnbalanceRuleNonStrict(f) ==
  IF /\ IF f.rms_overall > 0 THEN f.amp_1x * FeatScale >= UnbalanceRatio * f.rms_overall
        ELSE f.amp_1x > 0
     /\ f.amp_1x * FeatScale > UnbalanceDominance * f.amp_2x
  THEN <<FaultDiagnosis("unbalance",
           IF RatioAbove(f.amp_1x, f.rms_overall, UnbalanceHighRatio)
           THEN "high" ELSE "medium",
           "Mass unbalance detected")>>
  ELSE <<>>

\* lines 198-216: the diagnoses the unbalance rule appends
UnbalanceRule(f) ==
  IF /\ RatioAbove(f.amp_1x, f.rms_overall, UnbalanceRatio)
     /\ f.amp_1x * FeatScale > UnbalanceDominance * f.amp_2x
  THEN <<FaultDiagnosis("unbalance",
           IF RatioAbove(f.amp_1x, f.rms_overall, UnbalanceHighRatio)
           THEN "high" ELSE "medium",
           "Mass unbalance detected")>>
  ELSE <<>>

\* the misalignment rule without the comparison of 2x with 1x
MisalignmentRuleRmsOnly(f) ==
  IF RatioAbove(f.amp_2x, f.rms_overall, MisalignmentRatio)
  THEN <<FaultDiagnosis("misalignment",
           IF f.amp_2x > f.amp_1x THEN "high" ELSE "medium",
           "Shaft misalignment suspected")>>
  ELSE <<>>

\* the misalignment rule with >= in place of > on the share of 1x
MisalignmentRuleNonStrict(f) ==
  IF /\ RatioAbove(f.amp_2x, f.rms_overall, MisalignmentRatio)
     /\ f.amp_2x * FeatScale >= MisalignmentShare * f.amp_1x
  THEN <<FaultDiagnosis("misalignment",
           IF f.amp_2x > f.amp_1x THEN "high" ELSE "medium",
           "Shaft misalignment suspected")>>
  ELSE <<>>

\* lines 218-235
MisalignmentRule(f) ==
  IF /\ RatioAbove(f.amp_2x, f.rms_overall, MisalignmentRatio)
     /\ f.amp_2x * FeatScale > MisalignmentShare * f.amp_1x
  THEN <<FaultDiagnosis("misalignment",
           IF f.amp_2x > f.amp_1x THEN "high" ELSE "medium",
           "Shaft misalignment suspected")>>
  ELSE <<>>

\* lines 237-256
LoosenessRule(f) ==
  LET n_significant ==
        Cardinality({i \in 1..3 :
          RatioAbove(<<f.amp_1x, f.amp_2x, f.amp_3x>>[i], f.rms_overall, LoosenessRatio)})
  IN IF \/ n_significant >= LoosenessHarmonics
        \/ RatioAbove(f.amp_half_x, f.rms_overall, LoosenessRatio)
     THEN <<FaultDiagnosis("mechanical_looseness", "medium",
                           "Mechanical looseness suggested")>>
     ELSE <<>>

\* lines 258-272
ImpulsiveRule(f) ==
  IF f.kurtosis > KurtosisLimit \/ f.crest_factor > CrestLimit
  THEN <<FaultDiagnosis("impulsive_signal", "medium", "Impulsive content detected")>>
  ELSE <<>>

\* the keys of bearing_envelope_results in the order they are looked up, and
\* their labels
BearingKeys == <<"bpfo", "bpfi", "bsf", "ftf">>

BearingLabels == <<"Outer race defect", "Inner race defect", "Ball/roller defect",
                   "Cage defect">>

\* the bearing rule without the test of the confidence against 'none': every
\* result that is present is turned into a diagnosis
BearingRulesAnyConfidence(b, i) ==
  IF IsNone(b) \/ (\A k \in DOMAIN BearingKeys : IsNone(b[1][BearingKeys[k]]))
  THEN <<>>
  ELSE LET one(k) ==
             LET result == b[1][BearingKeys[k]]
             IN IF IsNone(result) THEN <<>>
                ELSE <<FaultDiagnosis("bearing_" \o BearingKeys[k],
                         IF IsNone(result[1].confidence) THEN "none"
                         ELSE result[1].confidence[1],
                         BearingLabels[k] \o " detected via envelope analysis.")>>
       IN one(1) \o one(2) \o one(3) \o one(4)

\* lines 274-298.  bearing_envelope_results is None or a dictionary; a key that
\* is absent or holds None or {} is None here (an empty dictionary is the
\* dictionary with every key absent), and a result without the key
\* "confidence" has confidence None.
RECURSIVE BearingRules(_, _)
BearingRules(b, i) ==
  IF IsNone(b) \/ (\A k \in DOMAIN BearingKeys : IsNone(b[1][BearingKeys[k]]))
     \/ i > Len(BearingKeys)
  THEN <<>>
  ELSE LET result == b[1][BearingKeys[i]]
           conf == IF IsNone(result) \/ IsNone(result[1].confidence) THEN "none"
                   ELSE result[1].confidence[1]
       IN (IF ~IsNone(result) /\ conf # "none"
           THEN <<FaultDiagnosis("bearing_" \o BearingKeys[i], conf,
                                 BearingLabels[i] \o " detected via envelope analysis.")>>
           ELSE <<>>) \o BearingRules(b, i + 1)

\* the healthy diagnosis appended whatever was found
HealthyRuleAlways(found) ==
  found \o <<FaultDiagnosis("healthy", "medium", "No significant fault patterns detected")>>

\* lines 300-315
HealthyRule(found) ==
  IF found = <<>>
  THEN <<FaultDiagnosis("healthy", "medium", "No significant fault patterns detected")>>
  ELSE found

\* the sort key as the order of the confidence strings themselves
PriorityAlphabetical(confidence) ==
  CASE confidence = "high" -> 0
    [] confidence = "low" -> 1
    [] confidence = "medium" -> 2
    [] OTHER -> 3

\* priority.get(d.confidence, 3)
Priority(confidence) ==
  CASE confidence = "high" -> 0
    [] confidence = "medium" -> 1
    [] confidence = "low" -> 2
    [] OTHER -> 3

\* the place list.sort gives d in a sorted list: behind every diagnosis whose
\* key is not greater (the sort is stable)
RECURSIVE InsertByPriority(_, _)
InsertByPriority(d, sorted) ==
  IF sorted = <<>> THEN <<d>>
  ELSE IF Priority(Head(sorted).confidence) <= Priority(d.confidence)
       THEN <<Head(sorted)>> \o InsertByPriority(d, Tail(sorted))
       ELSE <<d>> \o sorted

\* lines 317-319: diagnoses.sort(key=...)
RECURSIVE SortByPriority(_)
SortByPriority(ds) ==
  IF ds = <<>> THEN <<>>
  ELSE InsertByPriority(ds[Len(ds)], SortByPriority(SubSeq(ds, 1, Len(ds) - 1)))

classify_faults(f, b) ==
  SortByPriority(HealthyRule(UnbalanceRule(f) \o MisalignmentRule(f) \o LoosenessRule(f)
                             \o ImpulsiveRule(f) \o BearingRules(b, 1)))

\* the features classify_faults is called with
FeatureInputs ==
  [f_shaft : {250}, amp_1x : {0, 6, 8, 10, 12}, amp_2x : {0, 1, 4, 5, 6, 11},
   amp_3x : {0, 3, 4}, amp_half_x : {0, 3, 4}, rms_overall : {0, 2},
   crest_factor : {50, 51}, kurtosis : {40, 41}]

BearingResult(confidence) == Some([confidence |-> Some(confidence), harmonics_detected |-> 2])

\* the bearing_envelope_results it is called with
BearingInputs ==
  {None,
   Some([bpfo |-> None, bpfi |-> None, bsf |-> None, ftf |-> None]),
   Some([bpfo |-> BearingResult("high"), bpfi |-> BearingResult("medium"),
         bsf |-> BearingResult("low"), ftf |-> BearingResult("none")]),
   Some([bpfo |-> BearingResult("low"), bpfi |-> BearingResult("high"),
         bsf |-> BearingResult("high"), ftf |-> BearingResult("medium")]),
   Some([bpfo |-> BearingResult("medium"), bpfi |-> None,
         bsf |-> Some([confidence |-> None, harmonics_detected |-> 1]),
         ftf |-> BearingResult("high")]),
   Some([bpfo |-> BearingResult("certain"), bpfi |-> BearingResult("low"),
         bsf |-> None, ftf |-> BearingResult("medium")])}

\* the arguments are chosen; nothing is stored, no thread is started
InitClassify ==
  /\ InitStore
  /\ threads = <<>>
  /\ features \in {Some(f) : f \in FeatureInputs}
  /\ bearing_results \in BearingInputs
  /\ diagnoses = None
  /\ args = None
  /\ out = None
  /\ InitManager

\* diagnoses = classify_faults(features, bearing_results)
Classify ==
  /\ ~IsNone(features)
  /\ IsNone(diagnoses)
  /\ diagnoses' = Some(classify_faults(features[1], bearing_results))
  /\ UNCHANGED <<storeVars, threads, features, bearing_results, analysisVars, sensorVars>>

\* classify_fault.py lines 30-111, the standalone script.  data holds
\* shaft_freq_hz and the frequencies of spectrum_peaks in tenths of a hertz
\* (the keys of peaks are rounded to one decimal, line 32), amplitudes,
\* kurtosis and crest_factor in 1/FeatScale, rms_velocity_mm_s in hundredths.
\* peaks keeps the first place and the last amplitude of a frequency;
\* amp_near returns the amplitude of the first peak within 3 % of the shaft
\* frequency from the target (abs(f - target) <= shaft * 0.03, times 100).
classify(data) ==
  LET shaft == data.shaft_freq_hz
      sp == data.spectrum_peaks
      firsts == {i \in DOMAIN sp : \A j \in 1..(i - 1) : sp[j].frequency_hz # sp[i].frequency_hz}
      amplitude(i) == sp[CHOOSE j \in DOMAIN sp :
                           /\ sp[j].frequency_hz = sp[i].frequency_hz
                           /\ \A k \in DOMAIN sp :
                                sp[k].frequency_hz = sp[i].frequency_hz => k <= j].amplitude
      \* target = num / 2 * shaft
      amp_near(num) ==
        LET near == {i \in firsts : 100 * Abs(2 * sp[i].frequency_hz - num * shaft) <= 2 * 3 * shaft}
        IN IF near = {} THEN 0
           ELSE amplitude(CHOOSE i \in near : \A j \in near : i <= j)
      a1x == amp_near(2)
      a2x == amp_near(4)
      a3x == amp_near(6)
      a05x == amp_near(1)
      fault(type, confidence) == [type |-> type, confidence |-> confidence]
      faults ==
        (IF a1x > 0 /\ (a2x = 0 \/ a1x > 2 * a2x)
         THEN <<fault("unbalance", IF a2x = 0 \/ a1x > 3 * a2x THEN "high" ELSE "medium")>>
         ELSE <<>>)
        \o (IF a2x > 0 /\ a1x > 0 /\ 2 * a2x > a1x
            THEN <<fault("misalignment", IF a2x > a1x THEN "high" ELSE "medium")>>
            ELSE <<>>)
        \o (IF 1000 * a05x > FeatScale \/ (a1x > 0 /\ a2x > 0 /\ a3x > 0)
            THEN <<fault("mechanical_looseness", "medium")>>
            ELSE <<>>)
        \o (IF data.kurtosis > KurtosisLimit \/ data.crest_factor > CrestLimit
            THEN <<fault("impulsive_signal", "medium")>>
            ELSE <<>>)
      thresholds == [group1 |-> <<280, 710, 1800>>, group2 |-> <<140, 280, 710>>,
                     group3 |-> <<350, 900, 2240>>, group4 |-> <<71, 180, 450>>]
      t == IF data.machine_group \in DOMAIN thresholds
           THEN thresholds[data.machine_group] ELSE thresholds["group2"]
      rms_vel == data.rms_velocity_mm_s
  IN [faults |-> IF faults = <<>> THEN <<fault("healthy", "medium")>> ELSE faults,
      iso_10816 |-> [zone |-> IF rms_vel <= t[1] THEN "A"
                              ELSE IF rms_vel <= t[2] THEN "B"
                              ELSE IF rms_vel <= t[3] THEN "C" ELSE "D",
                     rms_velocity_mm_s |-> rms_vel, group |-> data.machine_group]]

\* the script run on the features classify_faults is called with: the
\* amplitudes as peaks at half, once, twice and three times the shaft
\* frequency, kurtosis and crest factor as they are, the defaults of
\* rms_velocity_mm_s and machine_group
ClassifyStandalone ==
  /\ ~IsNone(features)
  /\ IsNone(out)
  /\ LET f == features[1]
         peak(num, a) == [frequency_hz |-> (num * f.f_shaft) \div 2, amplitude |-> a]
     IN out' = Some(classify([shaft_freq_hz |-> f.f_shaft,
                              spectrum_peaks |-> <<peak(1, f.amp_half_x), peak(2, f.amp_1x),
                                                   peak(4, f.amp_2x), peak(6, f.amp_3x)>>,
                              kurtosis |-> f.kurtosis, crest_factor |-> f.crest_factor,
                              rms_velocity_mm_s |-> 0, machine_group |-> "group2"]))
  /\ UNCHANGED <<storeVars, threads, classifierVars, args, sensorVars>>

NextClassify == Classify \/ ClassifyStandalone

SpecClassify == InitClassify /\ [][NextClassify]_vars

-----------------------------------------------------------------------------
(* fault_detection.py: extract_shaft_features.  Frequencies are in tenths   *)
(* of a hertz, magnitudes and the features in 1/FeatScale; time samples are  *)
(* integers (crest factor and kurtosis do not depend on their unit).  The   *)
(* square roots and quotients are rounded down to the fixed-point unit.      *)

TolerancePct == 3    \* tolerance_pct = 3.0, the default

NoiseFloorMultiplier == 30    \* noise_floor_multiplier = 3.0, the default, in tenths

\* the bins inside the tolerance window of the frequency num/den:
\* tol = f * tolerance_pct / 100.0; (freqs >= f - tol) & (freqs <= f + tol)
WindowMask(freqs, num, den, tolerance_pct) ==
  {i \in DOMAIN freqs : /\ 100 * den * freqs[i] >= num * (100 - tolerance_pct)
                        /\ 100 * den * freqs[i] <= num * (100 + tolerance_pct)}

\* _peak_at (lines 114-119) at the frequency num/den: np.max(mags[mask]) if
\* np.any(mask), else 0.0
peak_at(freqs, mags, num, den, tolerance_pct) ==
  LET mask == WindowMask(freqs, num, den, tolerance_pct)
  IN IF mask # {}
     THEN CHOOSE a \in {mags[i] : i \in mask} : \A i \in mask : mags[i] <= a
     ELSE 0

Squares(s) == [i \in DOMAIN s |-> s[i] * s[i]]

\* np.sqrt(np.mean(mags**2)) (line 126)
SpectralRms(mags) == ISqrt(SumSeq(Squares(mags)) \div Len(mags))

\* lines 131-132: max|ts| / ts_rms if ts_rms > 0 else 0; the mean of the
\* squares of an empty signal is nan, which is not > 0
CrestFactor(ts) ==
  LET sumsq == SumSeq(Squares(ts))
      peak == MaxSeq([i \in DOMAIN ts |-> Abs(ts[i])])
  IN IF sumsq > 0
     THEN ISqrt((FeatScale * FeatScale * peak * peak * Len(ts)) \div sumsq)
     ELSE 0

\* the kurtosis with 3.0, the value of a Gaussian signal, for a signal
\* without spread
SignalKurtosisGaussianFallback(ts) ==
  LET n == Len(ts)
      total == SumSeq(ts)
      spread == n * SumSeq(Squares(ts)) - total * total
      fourth == SumSeq([i \in DOMAIN ts |->
                          (n * ts[i] - total) * (n * ts[i] - total)
                          * (n * ts[i] - total) * (n * ts[i] - total)])
  IN IF spread > 0 THEN (FeatScale * fourth) \div (n * spread * spread)
     ELSE 3 * FeatScale

\* the kurtosis less the 3.0 of a Gaussian signal
SignalKurtosisExcess(ts) ==
  LET n == Len(ts)
      total == SumSeq(ts)
      spread == n * SumSeq(Squares(ts)) - total * total
      fourth == SumSeq([i \in DOMAIN ts |->
                          (n * ts[i] - total) * (n * ts[i] - total)
                          * (n * ts[i] - total) * (n * ts[i] - total)])
  IN IF spread > 0 THEN (FeatScale * fourth) \div (n * spread * spread) - 3 * FeatScale
     ELSE 0

\* lines 133-139: sum(((ts - mean) / std)**4) / n if std > 0 else 0.0, std the
\* population standard deviation (np.std).  With S the sum and Q the sum of
\* squares, ts - mean = (n ts - S) / n and std**2 = (n Q - S**2) / n**2, so
\* the quotient is sum((n ts - S)**4) / (n (n Q - S**2)**2).  Nothing is
\* subtracted from it.
SignalKurtosis(ts) ==
  LET n == Len(ts)
      total == SumSeq(ts)
      spread == n * SumSeq(Squares(ts)) - total * total
      fourth == SumSeq([i \in DOMAIN ts |->
                          (n * ts[i] - total) * (n * ts[i] - total)
                          * (n * ts[i] - total) * (n * ts[i] - total)])
  IN IF spread > 0 THEN (FeatScale * fourth) \div (n * spread * spread)
     ELSE 0

\* lines 92-153; time_signal is None or a sequence of samples
extract_shaft_features(frequencies, magnitudes, shaft_freq, time_signal, tolerance_pct) ==
  [f_shaft |-> shaft_freq,
   amp_1x |-> peak_at(frequencies, magnitudes, shaft_freq, 1, tolerance_pct),
   amp_2x |-> peak_at(frequencies, magnitudes, 2 * shaft_freq, 1, tolerance_pct),
   amp_3x |-> peak_at(frequencies, magnitudes, 3 * shaft_freq, 1, tolerance_pct),
   amp_half_x |-> peak_at(frequencies, magnitudes, shaft_freq, 2, tolerance_pct),
   rms_overall |-> SpectralRms(magnitudes),
   crest_factor |-> IF IsNone(time_signal) THEN 0 ELSE CrestFactor(time_signal[1]),
   kurtosis |-> IF IsNone(time_signal) THEN 0 ELSE SignalKurtosis(time_signal[1])]

\* the calls of extract_shaft_features.  The spectra: bins at the orders of a
\* 25 Hz shaft, and bins around them of which one sits on the edge of its
\* window (51.5 Hz) and the others outside.  The time signals: none, empty,
\* all zero, constant, a square wave, a bell shape and a single impulse.
ExtractInputs ==
  [op : {"extract_shaft_features"},
   frequencies : {<<125, 250, 500, 750>>, <<250, 258, 515, 773>>},
   magnitudes : [1..4 -> {0, 6, 12}],
   shaft_freq : {250},
   time_signal : {None, Some(<<>>), Some(<<0, 0, 0, 0>>), Some(<<2, 2, 2, 2>>),
                  Some(<<1, -1, 1, -1>>), Some(<<-2, -1, -1, 0, 0, 0, 0, 1, 1, 2>>),
                  Some(<<0, 0, 0, 0, 0, 0, 0, 4>>)}]

\* features = extract_shaft_features(freqs, mags, shaft_freq, time_signal)
Extract ==
  /\ args[1].op = "extract_shaft_features"
  /\ IsNone(features)
  /\ features' = Some(extract_shaft_features(args[1].frequencies, args[1].magnitudes,
                                              args[1].shaft_freq, args[1].time_signal,
                                              TolerancePct))
  /\ UNCHANGED <<storeVars, threads, bearing_results, diagnoses, analysisVars, sensorVars>>

-----------------------------------------------------------------------------
(* fault_detection.py: assess_iso10816.  Velocities are in hundredths of a   *)
(* mm/s.                                                                     *)

\* lines 29-38
ISO_10816_THRESHOLDS ==
  [group1 |-> [A_good |-> 280, B_acceptable |-> 710, C_alarm |-> 1800],
   group2 |-> [A_good |-> 140, B_acceptable |-> 280, C_alarm |-> 710],
   group3 |-> [A_good |-> 350, B_acceptable |-> 900, C_alarm |-> 2240],
   group4 |-> [A_good |-> 71, B_acceptable |-> 180, C_alarm |-> 450]]

\* the assessment with the boundaries excluded from the better zone
assess_iso10816_exclusive(rms_velocity_mm_s, machine_group) ==
  LET thresholds == IF machine_group \in DOMAIN ISO_10816_THRESHOLDS
                    THEN ISO_10816_THRESHOLDS[machine_group]
                    ELSE ISO_10816_THRESHOLDS["group2"]
  IN [rms_velocity_mm_s |-> rms_velocity_mm_s,
      iso_zone |-> IF rms_velocity_mm_s < thresholds.A_good THEN "A"
                   ELSE IF rms_velocity_mm_s < thresholds.B_acceptable THEN "B"
                   ELSE IF rms_velocity_mm_s < thresholds.C_alarm THEN "C"
                   ELSE "D",
      machine_group |-> machine_group,
      thresholds |-> thresholds]

\* the assessment with the thresholds of group2 whatever the group
assess_iso10816_group2(rms_velocity_mm_s, machine_group) ==
  LET thresholds == ISO_10816_THRESHOLDS["group2"]
  IN [rms_velocity_mm_s |-> rms_velocity_mm_s,
      iso_zone |-> IF rms_velocity_mm_s <= thresholds.A_good THEN "A"
                   ELSE IF rms_velocity_mm_s <= thresholds.B_acceptable THEN "B"
                   ELSE IF rms_velocity_mm_s <= thresholds.C_alarm THEN "C"
                   ELSE "D",
      machine_group |-> machine_group,
      thresholds |-> thresholds]

\* lines 41-72; the velocities given have two decimals, which round(v, 3)
\* leaves as they are
assess_iso10816(rms_velocity_mm_s, machine_group) ==
  LET thresholds == IF machine_group \in DOMAIN ISO_10816_THRESHOLDS
                    THEN ISO_10816_THRESHOLDS[machine_group]
                    ELSE ISO_10816_THRESHOLDS["group2"]
  IN [rms_velocity_mm_s |-> rms_velocity_mm_s,
      iso_zone |-> IF rms_velocity_mm_s <= thresholds.A_good THEN "A"
                   ELSE IF rms_velocity_mm_s <= thresholds.B_acceptable THEN "B"
                   ELSE IF rms_velocity_mm_s <= thresholds.C_alarm THEN "C"
                   ELSE "D",
      machine_group |-> machine_group,
      thresholds |-> thresholds]

\* the calls of the tool assess_vibration_severity: velocities on, just under
\* and just over the thresholds of every group, and group names known and
\* unknown
AssessInputs ==
  [op : {"assess_vibration_severity"},
   rms_velocity_mm_s : {0, 70, 71, 72, 100, 140, 141, 180, 181, 280, 281, 350, 351, 450,
                        451, 500, 710, 711, 900, 901, 1800, 1801, 2240, 2241},
   machine_group : {"group1", "group2", "group3", "group4", "group5", ""}]

\* server.py lines 594-612: return assess_iso10816(rms_velocity_mm_s, machine_group)
AssessVibrationSeverity ==
  /\ args[1].op = "assess_vibration_severity"
  /\ IsNone(out)
  /\ out' = Some(assess_iso10816(args[1].rms_velocity_mm_s, args[1].machine_group))
  /\ UNCHANGED <<storeVars, threads, classifierVars, args, sensorVars>>

-----------------------------------------------------------------------------
(* envelope.py: check_bearing_peaks.  Frequencies are in tenths of a hertz, *)
(* the multiplier of the noise floor in tenths.                              *)

\* twice np.median(mags): the middle value counted twice, or the sum of the
\* two middle values of an even number of them
MedianTwice(mags) ==
  LET kth(k) == CHOOSE v \in Range(mags) :
                  /\ Cardinality({i \in DOMAIN mags : mags[i] < v}) < k
                  /\ Cardinality({i \in DOMAIN mags : mags[i] <= v}) >= k
      n == Len(mags)
  IN IF n % 2 = 1 THEN 2 * kth((n + 1) \div 2) ELSE kth(n \div 2) + kth(n \div 2 + 1)

\* the confidence with 'high' only for every harmonic detected
BearingPeaksConfidenceAll(detected_count, n_harmonics) ==
  IF detected_count >= n_harmonics /\ detected_count >= 1 THEN "high"
  ELSE IF detected_count >= 1 THEN "medium" ELSE "none"

\* line 192
BearingPeaksConfidence(detected_count, n_harmonics) ==
  IF detected_count >= 2 THEN "high"
  ELSE IF detected_count = 1 THEN "medium" ELSE "none"

\* lines 128-194.  peak_mag > noise_floor with noise_floor = median *
\* multiplier is 2 * 10 * peak_mag > MedianTwice * multiplier in tenths;
\* found_hz is the frequency of the first bin of the largest magnitude
\* (np.argmax).
check_bearing_peaks(freqs, magnitudes, target_freq, n_harmonics, tolerance_pct, noise_floor_multiplier) ==
  LET harmonic(h) ==
        LET mask == WindowMask(freqs, h * target_freq, 1, tolerance_pct)
            peak_mag == CHOOSE a \in {magnitudes[i] : i \in mask} :
                          \A i \in mask : magnitudes[i] <= a
            first == CHOOSE i \in mask :
                       /\ magnitudes[i] = peak_mag
                       /\ \A j \in mask : magnitudes[j] = peak_mag => i <= j
        IN IF mask # {}
           THEN [harmonic |-> h, expected_hz |-> h * target_freq,
                 found_hz |-> Some(freqs[first]), amplitude |-> peak_mag,
                 detected |-> 20 * peak_mag > MedianTwice(magnitudes) * noise_floor_multiplier]
           ELSE [harmonic |-> h, expected_hz |-> h * target_freq,
                 found_hz |-> None, amplitude |-> 0, detected |-> FALSE]
      results == [h \in 1..n_harmonics |-> harmonic(h)]
      detected_count == Cardinality({h \in 1..n_harmonics : results[h].detected})
  IN [target_frequency_hz |-> target_freq,
      harmonics_checked |-> n_harmonics,
      harmonics_detected |-> detected_count,
      confidence |-> BearingPeaksConfidence(detected_count, n_harmonics),
      details |-> results]

\* the calls of check_bearing_peaks: a fault frequency of 100 Hz looked for
\* in six bins, either on its harmonics or on and just outside the edges of
\* their windows (97 and 206 Hz inside, 103.1 and 309.1 Hz outside), above a
\* floor set by the magnitudes themselves
BearingPeaksInputs ==
  [op : {"check_bearing_peaks"},
   freqs : {<<500, 1000, 2000, 3000, 4000, 5000>>, <<500, 970, 1031, 2060, 3091, 5000>>},
   magnitudes : {<<1>> \o m \o <<1>> : m \in [1..4 -> {1, 3, 4}]},
   target_freq : {1000},
   n_harmonics : 0..3]

CheckBearingPeaks ==
  /\ args[1].op = "check_bearing_peaks"
  /\ IsNone(out)
  /\ out' = Some(check_bearing_peaks(args[1].freqs, args[1].magnitudes, args[1].target_freq,
                                      args[1].n_harmonics, TolerancePct, NoiseFloorMultiplier))
  /\ UNCHANGED <<storeVars, threads, classifierVars, args, sensorVars>>

-----------------------------------------------------------------------------
(* fft_analysis.py: find_peaks_in_spectrum.  Magnitudes are in units of      *)
(* 0.0005, so that 2 is the magnitude of the default threshold of -60 dB;    *)
(* magnitude_db = 20 log10(magnitude + 1e-12) grows strictly with the        *)
(* magnitude and is kept as the magnitude.  The bins given are 10 Hz apart,  *)
(* which makes min_distance_samples = max(1, int(5.0 / 10.0)) = 1: no two    *)
(* local maxima are that close, and the distance removes none.               *)

ThresholdMagnitude == 2    \* threshold_db = -60.0, the default, as a magnitude

\* lines 168-172, sig.find_peaks(magnitude_db, distance=1, height=threshold_db):
\* the local maxima, a flat one counted once at its middle, that reach the
\* height; the first and the last bin are never one
SpectralPeakIndices(magnitude) ==
  {i \in DOMAIN magnitude :
     /\ magnitude[i] >= ThresholdMagnitude
     /\ \E l \in 2..i, r \in i..(Len(magnitude) - 1) :
          /\ \A j \in l..r : magnitude[j] = magnitude[i]
          /\ magnitude[l - 1] < magnitude[i]
          /\ magnitude[r + 1] < magnitude[i]
          /\ i = ((l - 1) + (r - 1)) \div 2 + 1}

\* line 178, np.argsort(magnitude_db[peak_indices]): the orders that sort the
\* peaks by ascending magnitude.  The default kind of argsort is not a stable
\* sort, so peaks of equal magnitude may come in either order.
ArgSorts(magnitude, peak_indices) ==
  {order \in [1..Cardinality(peak_indices) -> peak_indices] :
     /\ \A a, b \in DOMAIN order : a # b => order[a] # order[b]
     /\ \A a, b \in DOMAIN order : a < b => magnitude[order[a]] <= magnitude[order[b]]}

\* lines 141-189, given the order argsort returned
find_peaks_in_spectrum(frequencies, magnitude, num_peaks, order) ==
  LET n == Len(order)
      sorted_idx == [j \in 1..n |-> order[n + 1 - j]]
      top_peaks == SubSeq(sorted_idx, 1, Min(num_peaks, n))
  IN [j \in DOMAIN top_peaks |->
        [frequency_hz |-> frequencies[top_peaks[j]], magnitude |-> magnitude[top_peaks[j]]]]

\* the calls of find_peaks_in_spectrum: seven bins from 0 to 60 Hz
FindPeaksInputs ==
  [op : {"find_peaks_in_spectrum"},
   frequencies : {<<0, 10, 20, 30, 40, 50, 60>>},
   magnitude : [1..7 -> {0, 1, 2, 3}],
   num_peaks : {1, 2}]

FindPeaks ==
  /\ args[1].op = "find_peaks_in_spectrum"
  /\ IsNone(out)
  /\ \E order \in ArgSorts(args[1].magnitude, SpectralPeakIndices(args[1].magnitude)) :
       out' = Some([peaks |-> find_peaks_in_spectrum(args[1].frequencies, args[1].magnitude,
                                                     args[1].num_peaks, order)])
  /\ UNCHANGED <<storeVars, threads, classifierVars, args, sensorVars>>

-----------------------------------------------------------------------------
(* bearing_freqs.py and server.py: the bearing catalog and the bearing       *)
(* frequencies diagnose_vibration checks.  Diameters are in micrometres,     *)
(* frequencies and orders in tenths.  A frequency given in Hz or as an order *)
(* is the number [hz |-> v]; one computed from a geometry is kept as the     *)
(* call that computes it, [frequency, rpm, n_balls, ball_dia, pitch_dia,     *)
(* contact_angle].  The spectra are not modelled: of the result of           *)
(* diagnose_vibration the model keeps which frequencies were checked and     *)
(* under which bearing_info_source.                                          *)

\* lines 115-143 of bearing_freqs.py, in the order of the dictionary
COMMON_BEARINGS ==
  <<[designation |-> "6205", name |-> "6205 (Deep groove)", n_balls |-> 9,
     ball_dia |-> 7938, pitch_dia |-> 38500, contact_angle |-> 0],
    [designation |-> "6206", name |-> "6206 (Deep groove)", n_balls |-> 9,
     ball_dia |-> 9525, pitch_dia |-> 46000, contact_angle |-> 0],
    [designation |-> "6207", name |-> "6207 (Deep groove)", n_balls |-> 9,
     ball_dia |-> 11112, pitch_dia |-> 53500, contact_angle |-> 0],
    [designation |-> "6208", name |-> "6208 (Deep groove)", n_balls |-> 9,
     ball_dia |-> 12700, pitch_dia |-> 60000, contact_angle |-> 0],
    [designation |-> "6305", name |-> "6305 (Deep groove)", n_balls |-> 8,
     ball_dia |-> 10319, pitch_dia |-> 39040, contact_angle |-> 0],
    [designation |-> "6306", name |-> "6306 (Deep groove)", n_balls |-> 8,
     ball_dia |-> 12303, pitch_dia |-> 46360, contact_angle |-> 0],
    [designation |-> "NU205", name |-> "NU205 (Cylindrical roller)", n_balls |-> 13,
     ball_dia |-> 7500, pitch_dia |-> 38500, contact_angle |-> 0],
    [designation |-> "NU206", name |-> "NU206 (Cylindrical roller)", n_balls |-> 13,
     ball_dia |-> 9000, pitch_dia |-> 46000, contact_angle |-> 0],
    [designation |-> "7205", name |-> "7205 (Angular contact)", n_balls |-> 12,
     ball_dia |-> 7144, pitch_dia |-> 38000, contact_angle |-> 25]>>

\* COMMON_BEARINGS.get(designation.upper())
get_bearing(designation) ==
  LET found == {i \in DOMAIN COMMON_BEARINGS :
                  COMMON_BEARINGS[i].designation = Upper(designation)}
  IN IF found = {} THEN None ELSE Some(COMMON_BEARINGS[CHOOSE i \in found : TRUE])

\* the frequencies bf.bpfo, bf.bpfi, bf.bsf, bf.ftf of
\* compute_bearing_frequencies(rpm, n_balls, ball_dia, pitch_dia, contact_angle)
BearingFrequenciesOf(rpm, n_balls, ball_dia, pitch_dia, contact_angle) ==
  [k \in Range(BearingKeys) |->
     [frequency |-> k, rpm |-> rpm, n_balls |-> n_balls, ball_dia |-> ball_dia,
      pitch_dia |-> pitch_dia, contact_angle |-> contact_angle]]

\* server.py lines 454-477
lookup_bearing_and_compute(designation, rpm) ==
  LET bearing == get_bearing(designation)
  IN IF IsNone(bearing)
     THEN [error |-> "Bearing not found in database.",
           available |-> [i \in DOMAIN COMMON_BEARINGS |-> COMMON_BEARINGS[i].designation]]
     ELSE [bearing |-> bearing[1].name, rpm |-> rpm, shaft_frequency_hz |-> rpm \div 6,
           frequencies |-> BearingFrequenciesOf(rpm, bearing[1].n_balls, bearing[1].ball_dia,
                                                bearing[1].pitch_dia, bearing[1].contact_angle)]

\* server.py lines 615-776, for the store d and the heap h.  a.hz and a.order
\* hold bpfo_hz .. ftf_hz and bpfo_order .. ftf_order by key.
diagnose_vibration(d, h, a) ==
  LET resolved == resolve_signal(d, h, a.data_id, a.signal, a.sample_rate, a.channel)
      shaft_freq == a.rpm \div 6
      given(v) == ~IsNone(v) /\ v[1] > 0
      keys == Range(BearingKeys)
      direct_hz == \E k \in keys : given(a.hz[k])
      direct_orders == \E k \in keys : given(a.order[k])
      truthy(v) == ~IsNone(v) /\ v[1] # 0
      bearing == IF IsNone(a.bearing_designation) \/ a.bearing_designation[1] = ""
                 THEN None ELSE get_bearing(a.bearing_designation[1])
      source ==
        IF direct_hz \/ direct_orders
        THEN Some(IF direct_hz THEN "user-provided frequencies" ELSE "user-provided orders")
        ELSE IF truthy(a.bearing_n_balls) /\ truthy(a.bearing_ball_dia_mm)
                /\ truthy(a.bearing_pitch_dia_mm)
        THEN Some("custom geometry")
        ELSE IF ~IsNone(bearing) THEN Some("database (" \o bearing[1].name \o ")")
        ELSE None
      fault_freqs ==
        IF direct_hz \/ direct_orders
        THEN [k \in {k \in keys : given(a.hz[k]) \/ given(a.order[k])} |->
                IF given(a.hz[k]) THEN [hz |-> a.hz[k][1]]
                ELSE [hz |-> (a.order[k][1] * shaft_freq) \div 10]]
        ELSE IF truthy(a.bearing_n_balls) /\ truthy(a.bearing_ball_dia_mm)
                /\ truthy(a.bearing_pitch_dia_mm)
        THEN BearingFrequenciesOf(a.rpm, a.bearing_n_balls[1], a.bearing_ball_dia_mm[1],
                                  a.bearing_pitch_dia_mm[1], a.bearing_contact_angle_deg)
        ELSE IF ~IsNone(bearing)
        THEN BearingFrequenciesOf(a.rpm, bearing[1].n_balls, bearing[1].ball_dia,
                                  bearing[1].pitch_dia, bearing[1].contact_angle)
        ELSE <<>>
  IN IF ~resolved.ok
     THEN [error |-> [message |-> resolved.error, available |-> resolved.available]]
     ELSE [bearing_analysis |->
             IF DOMAIN fault_freqs = {} THEN None
             ELSE Some([k \in DOMAIN fault_freqs |-> [target_frequency_hz |-> fault_freqs[k]]]),
           bearing_info_source |-> source]

\* the calls of lookup_bearing_and_compute, of diagnose_vibration and of
\* check_bearing_faults_direct: the bearing is described by frequencies in
\* Hz, by orders, by a geometry, by a designation, by several of them or by
\* none; the shaft speed is given, missing, zero or negative
BearingCallInputs ==
  [op : {"lookup_bearing_and_compute"}, rpm : {1500},
   designation : {"6205", "nu205", "7205", "9999", "nu999", ""}]
  \cup
  [op : {"diagnose_vibration"}, rpm : {1500},
   data_id : {None, Some("a")},
   signal : {Some(ListSignal(<<2>>, <<-1, 1>>))}, sample_rate : {Some(2)}, channel : {"X"},
   hz : {[bpfo |-> x, bpfi |-> y, bsf |-> None, ftf |-> None] :
           x \in {None, Some(0), Some(1000)}, y \in {None, Some(1500)}},
   order : {[bpfo |-> x, bpfi |-> None, bsf |-> y, ftf |-> None] :
              x \in {None, Some(30)}, y \in {None, Some(20)}},
   bearing_n_balls : {None, Some(8)}, bearing_ball_dia_mm : {Some(10000)},
   bearing_pitch_dia_mm : {Some(40000)}, bearing_contact_angle_deg : {0},
   bearing_designation : {None, Some("6205"), Some("nu205"), Some("9999"), Some("")}]
  \cup
  [op : {"check_bearing_faults_direct"},
   data_id : {None, Some("a")}, channel : {"X"},
   envelope : {[frequencies |-> <<>>, envelope_spectrum |-> <<>>]},
   frequencies : {None, Some(<<500, 1000, 2000, 3000, 4000, 5000>>)},
   amplitudes : {Some(<<1, 4, 4, 1, 1, 1>>)},
   rpm : {None, Some(-1500), Some(0), Some(1500), Some(3000)},
   hz : {[bpfo |-> x, bpfi |-> None, bsf |-> None, ftf |-> y] :
           x \in {None, Some(0), Some(1000)}, y \in {None, Some(500)}},
   order : {[bpfo |-> x, bpfi |-> None, bsf |-> y, ftf |-> None] :
              x \in {None, Some(20)}, y \in {None, Some(-10), Some(40)}},
   n_harmonics : {3}]

LookupBearingAndCompute ==
  /\ args[1].op = "lookup_bearing_and_compute"
  /\ IsNone(out)
  /\ out' = Some(lookup_bearing_and_compute(args[1].designation, args[1].rpm))
  /\ UNCHANGED <<storeVars, threads, classifierVars, args, sensorVars>>

DiagnoseVibration ==
  /\ args[1].op = "diagnose_vibration"
  /\ IsNone(out)
  /\ out' = Some(diagnose_vibration(entries, heap, args[1]))
  /\ UNCHANGED <<storeVars, threads, classifierVars, args, sensorVars>>

\* the fault frequencies resolved as if an order without a usable rpm had
\* not been supplied
check_bearing_faults_direct_skip(d, h, a) ==
  LET resolved_signal == resolve_signal(d, h, a.data_id, None, None, a.channel)
      env == IF ~IsNone(a.data_id) THEN a.envelope
             ELSE [frequencies |-> a.frequencies[1], envelope_spectrum |-> a.amplitudes[1]]
      shaft_freq == IF ~IsNone(a.rpm) /\ a.rpm[1] > 0 THEN Some(a.rpm[1] \div 6) ELSE None
      given(v) == ~IsNone(v) /\ v[1] > 0
      keys == {k \in Range(BearingKeys) :
                 given(a.hz[k]) \/ (given(a.order[k]) /\ ~IsNone(shaft_freq))}
      resolved == [k \in keys |->
                     IF given(a.hz[k]) THEN a.hz[k][1]
                     ELSE (a.order[k][1] * shaft_freq[1]) \div 10]
  IN IF ~IsNone(a.data_id) /\ ~resolved_signal.ok
     THEN [error |-> [message |-> resolved_signal.error, available |-> resolved_signal.available]]
     ELSE IF IsNone(a.data_id) /\ (IsNone(a.frequencies) \/ IsNone(a.amplitudes))
     THEN [error |-> [message |-> "Provide data_id (raw signal) or (frequencies + amplitudes) of an envelope spectrum."]]
     ELSE IF keys = {}
     THEN [error |-> [message |-> "No fault frequencies provided."]]
     ELSE [checks |-> [k \in keys |->
                         check_bearing_peaks(env.frequencies, env.envelope_spectrum, resolved[k],
                                             a.n_harmonics, TolerancePct, NoiseFloorMultiplier)],
           shaft_frequency_hz |-> shaft_freq,
           input_mode |-> IF IsNone(shaft_freq) THEN None
                          ELSE IF \E k \in Range(BearingKeys) : given(a.order[k])
                          THEN Some("orders converted to Hz") ELSE Some("direct Hz")]

\* server.py lines 489-589.  The envelope spectrum of a stored signal is the
\* one envelope_spectrum computes (a.envelope, given with the call); rpm / 60
\* is in tenths of Hz and an order in tenths, as in diagnose_vibration.  The
\* keys are gone through in the order of BearingKeys and the first order that
\* has no Hz value beside it and no shaft frequency ends the call (line
\* 566-568), before any key is looked for in the spectrum (lines 575-582).
\* The results by key are under checks; shaft_frequency_hz and input_mode
\* are there when rpm is positive (lines 583-588).
check_bearing_faults_direct(d, h, a) ==
  LET resolved_signal == resolve_signal(d, h, a.data_id, None, None, a.channel)
      env == IF ~IsNone(a.data_id) THEN a.envelope
             ELSE [frequencies |-> a.frequencies[1], envelope_spectrum |-> a.amplitudes[1]]
      shaft_freq == IF ~IsNone(a.rpm) /\ a.rpm[1] > 0 THEN Some(a.rpm[1] \div 6) ELSE None
      given(v) == ~IsNone(v) /\ v[1] > 0
      keys == {k \in Range(BearingKeys) : given(a.hz[k]) \/ given(a.order[k])}
      unresolvable == {i \in 1..Len(BearingKeys) :
                         /\ ~given(a.hz[BearingKeys[i]])
                         /\ given(a.order[BearingKeys[i]])
                         /\ IsNone(shaft_freq)}
      resolved == [k \in keys |->
                     IF given(a.hz[k]) THEN a.hz[k][1]
                     ELSE (a.order[k][1] * shaft_freq[1]) \div 10]
  IN IF ~IsNone(a.data_id) /\ ~resolved_signal.ok
     THEN [error |-> [message |-> resolved_signal.error, available |-> resolved_signal.available]]
     ELSE IF IsNone(a.data_id) /\ (IsNone(a.frequencies) \/ IsNone(a.amplitudes))
     THEN [error |-> [message |-> "Provide data_id (raw signal) or (frequencies + amplitudes) of an envelope spectrum."]]
     ELSE IF unresolvable # {}
     THEN [error |-> [message |-> BearingKeys[CHOOSE i \in unresolvable : \A j \in unresolvable : i <= j]
                                    \o "_order was provided but rpm is missing. Supply rpm to convert orders to Hz."]]
     ELSE IF keys = {}
     THEN [error |-> [message |-> "No fault frequencies provided."]]
     ELSE [checks |-> [k \in keys |->
                         check_bearing_peaks(env.frequencies, env.envelope_spectrum, resolved[k],
                                             a.n_harmonics, TolerancePct, NoiseFloorMultiplier)],
           shaft_frequency_hz |-> shaft_freq,
           input_mode |-> IF IsNone(shaft_freq) THEN None
                          ELSE IF \E k \in Range(BearingKeys) : given(a.order[k])
                          THEN Some("orders converted to Hz") ELSE Some("direct Hz")]

CheckBearingFaultsDirect ==
  /\ args[1].op = "check_bearing_faults_direct"
  /\ IsNone(out)
  /\ out' = Some(check_bearing_faults_direct(entries, heap, args[1]))
  /\ UNCHANGED <<storeVars, threads, classifierVars, args, sensorVars>>

-----------------------------------------------------------------------------
(* bearing_freqs.py: the characteristic frequencies of a bearing.  They are  *)
(* computed in floating point: each operation gives the exact result rounded *)
(* to the nearest value with MantissaBits significant bits, ties to even (53 *)
(* bits in Python; the number of bits is a bound here).  A value is          *)
(* m * 2^e with 2^(MantissaBits-1) <= m < 2^MantissaBits, or zero; the       *)
(* values used are not negative.                                             *)

MantissaBits == 8

\* a op b for two float values and op one of * / + -, and the float of the
\* integer a for op = "float"
Float(op, a, b) ==
  LET P == MantissaBits
      \* num / den * 2^e rounded
      round(num, den, e) ==
        IF num = 0 THEN [m |-> 0, e |-> 0]
        ELSE LET s == CHOOSE s \in -(P + 2)..(P + 2) :
                        IF s >= 0
                        THEN den * 2^(P - 1) * 2^s <= num /\ num < den * 2^P * 2^s
                        ELSE den * 2^(P - 1) <= num * 2^(-s) /\ num * 2^(-s) < den * 2^P
                 n2 == IF s >= 0 THEN num ELSE num * 2^(-s)
                 d2 == IF s >= 0 THEN den * 2^s ELSE den
                 q == n2 \div d2
                 r == n2 % d2
                 m == IF 2 * r > d2 \/ (2 * r = d2 /\ q % 2 = 1) THEN q + 1 ELSE q
             IN IF m = 2^P THEN [m |-> 2^(P - 1), e |-> e + s + 1] ELSE [m |-> m, e |-> e + s]
      e0 == Min(a.e, b.e)
  IN CASE op = "float" -> round(a, 1, 0)
       [] op = "*" -> round(a.m * b.m, 1, a.e + b.e)
       [] op = "/" -> round(a.m, b.m, a.e - b.e)
       [] op = "+" -> round(a.m * 2^(a.e - e0) + b.m * 2^(b.e - e0), 1, e0)
       [] op = "-" -> round(a.m * 2^(a.e - e0) - b.m * 2^(b.e - e0), 1, e0)

\* bpfi computed with the factor of bpfo
compute_bearing_frequencies_same_factor(rpm, n_balls, ball_dia, pitch_dia) ==
  LET F(n) == Float("float", n, 0)
      f_shaft == Float("/", F(rpm), F(60))
      ratio == Float("/", F(ball_dia), F(pitch_dia))
      cos == F(1)
      less == Float("-", F(1), Float("*", ratio, cos))
      half_n == Float("/", F(n_balls), F(2))
  IN [rpm |-> rpm,
      ftf |-> Float("*", Float("*", f_shaft, Float("/", F(1), F(2))), less),
      bpfo |-> Float("*", Float("*", f_shaft, half_n), less),
      bpfi |-> Float("*", Float("*", f_shaft, half_n), less),
      bsf |-> Float("*", Float("*", f_shaft,
                                Float("/", F(pitch_dia), Float("*", F(2), F(ball_dia)))),
                    Float("-", F(1), Float("*", Float("*", ratio, cos), Float("*", ratio, cos))))]

\* lines 68-108, for a contact angle of 0 degrees: math.radians(0.0) is 0.0
\* and math.cos(0.0) is 1.0
compute_bearing_frequencies(rpm, n_balls, ball_dia, pitch_dia) ==
  LET F(n) == Float("float", n, 0)
      f_shaft == Float("/", F(rpm), F(60))
      ratio == Float("/", F(ball_dia), F(pitch_dia))
      cos == F(1)
      less == Float("-", F(1), Float("*", ratio, cos))
      more == Float("+", F(1), Float("*", ratio, cos))
      half_n == Float("/", F(n_balls), F(2))
  IN [rpm |-> rpm,
      ftf |-> Float("*", Float("*", f_shaft, Float("/", F(1), F(2))), less),
      bpfo |-> Float("*", Float("*", f_shaft, half_n), less),
      bpfi |-> Float("*", Float("*", f_shaft, half_n), more),
      bsf |-> Float("*", Float("*", f_shaft,
                                Float("/", F(pitch_dia), Float("*", F(2), F(ball_dia)))),
                    Float("-", F(1), Float("*", Float("*", ratio, cos), Float("*", ratio, cos))))]

\* the calls of compute_bearing_frequencies: shaft speeds, numbers of rolling
\* elements and diameters in mm that are whole numbers, the rolling element
\* smaller than the pitch circle, the contact angle 0
BearingGeometryInputs ==
  {a \in [op : {"compute_bearing_frequencies"}, rpm : {1, 7, 60, 100, 150},
          n_balls : {1, 3, 8, 9, 13}, ball_dia : {1, 3, 8, 10}, pitch_dia : {2, 9, 11, 39}] :
     a.ball_dia < a.pitch_dia /\ 8 * a.ball_dia >= a.pitch_dia}

ComputeBearingFrequencies ==
  /\ args[1].op = "compute_bearing_frequencies"
  /\ IsNone(out)
  /\ out' = Some(compute_bearing_frequencies(args[1].rpm, args[1].n_balls, args[1].ball_dia,
                                             args[1].pitch_dia))
  /\ UNCHANGED <<storeVars, threads, classifierVars, args, sensorVars>>

-----------------------------------------------------------------------------
(* The analysis functions called on their own: the arguments are chosen,     *)
(* nothing is stored and no thread is started.                               *)

InitAnalysis ==
  /\ InitStore
  /\ threads = <<>>
  /\ features = None
  /\ bearing_results = None
  /\ diagnoses = None
  /\ args \in {Some(a) : a \in ExtractInputs \cup AssessInputs \cup BearingPeaksInputs
                                \cup FindPeaksInputs \cup BearingCallInputs
                                \cup BearingGeometryInputs}
  /\ out = None
  /\ InitManager

NextAnalysis ==
  \/ Extract
  \/ Classify
  \/ AssessVibrationSeverity
  \/ CheckBearingPeaks
  \/ FindPeaks
  \/ LookupBearingAndCompute
  \/ DiagnoseVibration
  \/ CheckBearingFaultsDirect
  \/ ComputeBearingFrequencies

SpecAnalysis == InitAnalysis /\ [][NextAnalysis]_vars

-----------------------------------------------------------------------------
(* Threads of the host calling the tools at once.  The store takes no lock:  *)
(* a dictionary operation is atomic (it runs under the interpreter lock),    *)
(* and a thread may be switched out between any two of them.                 *)

Threads == 1..NThreads

\* the files load_from_file is given: name, stem and suffix of the path and
\* what np.loadtxt reads from the file
Files == {[name |-> "a.csv", stem |-> "a", suffix |-> ".csv", shape |-> <<2>>,
           data |-> <<-1, 1>>],
          [name |-> "b.csv", stem |-> "b", suffix |-> ".csv", shape |-> <<1>>,
           data |-> <<1>>],
          [name |-> "c.txt", stem |-> "c", suffix |-> ".txt", shape |-> <<1>>,
           data |-> <<1>>]}

FileIds == {f.stem : f \in Files}

\* a thread between two calls
IdleThread == [pc |-> "idle", op |-> "none", calls |-> 0, data_id |-> "",
               stored |-> None, entry |-> None, used |-> 0, snapshot |-> <<>>,
               pos |-> 0, acc |-> <<>>, res |-> [nothing |-> TRUE]]

\* an empty store and the threads between calls
InitThreads ==
  /\ InitStore
  /\ threads = [t \in Threads |-> IdleThread]
  /\ features = None
  /\ bearing_results = None
  /\ diagnoses = None
  /\ args = None
  /\ out = None
  /\ InitManager

CanCall(t) == threads[t].pc \in {"idle", "done"} /\ threads[t].calls < MaxCalls

\* the thread's record when it starts the call op
Started(t, op) == [IdleThread EXCEPT !.op = op, !.calls = threads[t].calls + 1]

\* load_from_file up to and including its put (lines 156-177)
LoadPut(t, f, sample_rate, sensor_name, data_id, at) ==
  /\ CanCall(t)
  /\ IF f.suffix # ".csv"
     THEN /\ threads' = [threads EXCEPT ![t] =
                           [Started(t, "load_from_file") EXCEPT
                              !.pc = "done",
                              !.res = [ok |-> FALSE, exc |-> "ValueError"]]]
          /\ UNCHANGED <<entries, heap>>
     ELSE LET id == IF IsNone(data_id) THEN f.stem ELSE data_id[1]
              made == Materialize(heap, NewArray("float64", f.shape, f.data))
              meta == [NoMetadata EXCEPT !.source_file = Some(f.name),
                                         !.sensor = Some(sensor_name)]
              res == put(entries, made.heap, at, id, made.arg, sample_rate, Some(meta))
          IN /\ Cardinality(StoredIds(res.entries)) <= MaxEntries
             /\ entries' = res.entries
             /\ heap' = res.heap
             /\ threads' = [threads EXCEPT ![t] =
                              [Started(t, "load_from_file") EXCEPT
                                 !.pc = "readback",
                                 !.data_id = id,
                                 !.stored = Some(res.entries.vals[id])]]
  /\ call' = [op |-> "load_from_file", thread |-> t]
  /\ UNCHANGED <<held, ret, lastPut, classifierVars, analysisVars, sensorVars>>

\* entry = self._entries[data_id] (line 178): KeyError when the id is gone
LoadReadBack(t) ==
  /\ threads[t].pc = "readback"
  /\ threads' = [threads EXCEPT ![t] =
       IF threads[t].data_id \in StoredIds(entries)
       THEN [@ EXCEPT !.pc = "summary", !.entry = Some(entries.vals[threads[t].data_id])]
       ELSE [@ EXCEPT !.pc = "done", !.res = [ok |-> FALSE, exc |-> "KeyError"]]]
  /\ call' = [op |-> "load_from_file", thread |-> t]
  /\ UNCHANGED <<entries, heap, held, ret, lastPut, classifierVars, analysisVars, sensorVars>>

\* return data_id, entry.summary() (line 179)
LoadSummary(t) ==
  /\ threads[t].pc = "summary"
  /\ LET s == summary(heap, threads[t].entry[1])
     IN threads' = [threads EXCEPT ![t] =
          [@ EXCEPT !.pc = "done",
                    !.res = IF s.ok THEN [ok |-> TRUE, data_id |-> threads[t].data_id,
                                          summary |-> s.val]
                            ELSE s]]
  /\ call' = [op |-> "load_from_file", thread |-> t]
  /\ UNCHANGED <<entries, heap, held, ret, lastPut, classifierVars, analysisVars, sensorVars>>

\* list_entries: iter(self._entries.items()) remembers the size of the dictionary
ListStart(t) ==
  /\ CanCall(t)
  /\ threads' = [threads EXCEPT ![t] =
       [Started(t, "list_entries") EXCEPT
          !.pc = "iterate", !.used = Len(entries.keys), !.snapshot = entries.keys]]
  /\ call' = [op |-> "list_entries", thread |-> t]
  /\ UNCHANGED <<entries, heap, held, ret, lastPut, classifierVars, analysisVars, sensorVars>>

\* the thread after the iterator has handed out the item at the next position
\* of the keys as they are now, or has ended the loop
Advance(t) ==
  IF threads[t].pos >= Len(entries.keys)
  THEN [threads[t] EXCEPT !.pc = "done", !.res = [ok |-> TRUE, val |-> threads[t].acc]]
  ELSE [threads[t] EXCEPT !.pc = "summarize",
                          !.pos = @ + 1,
                          !.data_id = entries.keys[threads[t].pos + 1],
                          !.entry = Some(entries.vals[entries.keys[threads[t].pos + 1]])]

IterationError(t) ==
  [threads[t] EXCEPT !.pc = "done", !.res = [ok |-> FALSE, exc |-> "RuntimeError"]]

\* next(iterator): RuntimeError when the dictionary changed size since the
\* iterator was made.  With the size the same and the keys changed the
\* iterator either goes on over the keys as they are now or raises
\* RuntimeError (dictionary keys changed during iteration), depending on
\* where the keys lie in the table.
ListNext(t) ==
  /\ threads[t].pc = "iterate"
  /\ \E raise \in BOOLEAN :
       /\ raise <=> \/ Len(entries.keys) # threads[t].used
                    \/ entries.keys # threads[t].snapshot /\ raise
       /\ threads' = [threads EXCEPT ![t] =
                        IF raise THEN IterationError(t) ELSE Advance(t)]
  /\ call' = [op |-> "list_entries", thread |-> t]
  /\ UNCHANGED <<entries, heap, held, ret, lastPut, classifierVars, analysisVars, sensorVars>>

\* {"data_id": k, **v.summary()} of the item handed out
ListSummarize(t) ==
  /\ threads[t].pc = "summarize"
  /\ LET s == summary(heap, threads[t].entry[1])
     IN threads' = [threads EXCEPT ![t] =
          IF s.ok
          THEN [@ EXCEPT !.pc = "iterate",
                         !.acc = Append(@, [f \in {"data_id"} \cup DOMAIN s.val |->
                                   IF f = "data_id" THEN threads[t].data_id ELSE s.val[f]])]
          ELSE [@ EXCEPT !.pc = "done", !.res = s]]
  /\ call' = [op |-> "list_entries", thread |-> t]
  /\ UNCHANGED <<entries, heap, held, ret, lastPut, classifierVars, analysisVars, sensorVars>>

\* remove(data_id) by a thread
ThreadRemove(t, data_id) ==
  /\ CanCall(t)
  /\ LET res == remove(entries, data_id)
     IN /\ entries' = res.entries
        /\ threads' = [threads EXCEPT ![t] =
                         [Started(t, "remove") EXCEPT
                            !.pc = "done", !.data_id = data_id,
                            !.res = [removed |-> res.ret]]]
  /\ call' = [op |-> "remove", thread |-> t]
  /\ UNCHANGED <<heap, held, ret, lastPut, classifierVars, analysisVars, sensorVars>>

NextThreads ==
  \E t \in Threads :
    \/ \E f \in Files, data_id \in {None, Some("a")}, at \in Instants :
         LoadPut(t, f, 2, "iis3dwb", data_id, at)
    \/ LoadReadBack(t)
    \/ LoadSummary(t)
    \/ ListStart(t)
    \/ ListNext(t)
    \/ ListSummarize(t)
    \/ \E data_id \in FileIds : ThreadRemove(t, data_id)

SpecThreads == InitThreads /\ [][NextThreads]_vars

\* ---------------------------------------------------------------------
\* The DATALOG2 manager of the sensor server (stwinbox_sensor_mcp/
\* datalog2_comm.py).  The SDK calls are outside the repository: a call
\* either returns or raises, and `fail' names the call that raises ("none"
\* when every call returns).  A raising call has no effect on the board.
\* ---------------------------------------------------------------------

\* at most this many active sensors reported by get_sensors_names
MaxSensors == 2

\* StartAcquisition is taken only while the list of files stays this short
MaxOpenFiles == 3

\* the is_connected property (lines 90-92)
is_connected(m) == m.connected /\ m.hsd_link_instance

\* the calls of a try block that are reached when `fail' raises: all of them
\* when none raises, else those up to the raising one
CallsUpTo(calls, fail) ==
  IF \E k \in DOMAIN calls : calls[k] = fail
  THEN SubSeq(calls, 1, CHOOSE k \in DOMAIN calls : calls[k] = fail)
  ELSE calls

\* DataLog2Manager.connect (lines 112-159); the acquisition folder and the
\* device info it returns are left out
Connect(outcome) ==
  /\ last' = [op |-> "connect", steps |-> <<>>,
              ret |-> IF outcome = "no_sdk" THEN "error"
                      ELSE IF is_connected(manager) THEN "already_connected"
                      ELSE IF outcome = "ok" THEN "connected"
                      ELSE "error"]
  /\ manager' =
       IF outcome = "no_sdk" \/ is_connected(manager) THEN manager
       ELSE IF outcome = "create_hsd_link_raises" THEN [manager EXCEPT !.connected = FALSE]
       ELSE IF outcome = "no_device" THEN [manager EXCEPT !.hsd_link_instance = FALSE]
       ELSE IF outcome = "get_devices_raises"
         THEN [manager EXCEPT !.hsd_link_instance = TRUE, !.connected = FALSE]
       ELSE [manager EXCEPT !.hsd_link_instance = TRUE, !.connected = TRUE]
  /\ UNCHANGED <<device, storeVars, threads, classifierVars, analysisVars>>

\* DataLog2Manager.start_acquisition (lines 326-381).  name and description
\* are optional strings; sensors is what get_sensors_names returns, each
\* sensor with the outcome of opening its file and starting its thread.
start_acquisition(m, dev, name, description, sensors, fail) ==
  IF ~is_connected(m) THEN [manager |-> m, device |-> dev, steps |-> <<>>, ret |-> "error"]
  ELSE IF m.logging_active
    THEN [manager |-> m, device |-> dev, steps |-> <<>>, ret |-> "error"]
  ELSE
    LET truthy(s) == ~IsNone(s) /\ s[1] # ""
        calls == (IF truthy(name) THEN <<"set_acquisition_name">> ELSE <<>>)
                   \o (IF truthy(description) THEN <<"set_acquisition_description">> ELSE <<>>)
                   \o <<"start_log", "get_sensors_names", "get_acquisition_folder">>
                   \o (IF sensors # <<>> THEN <<"path_join">> ELSE <<>>)
        made == CallsUpTo(calls, fail)
        raised == \E k \in DOMAIN calls : calls[k] = fail
        started == fail # "start_log" /\ \E k \in DOMAIN made : made[k] = "start_log"
        opened == SelectSeq(sensors, LAMBDA s : s.outcome # "open_raises")
        running == SelectSeq(sensors, LAMBDA s : s.outcome = "ok")
    IN IF raised
       THEN [manager |-> [m EXCEPT !.logging_active = FALSE],
             device |-> [dev EXCEPT !.logging = started \/ @],
             steps |-> made, ret |-> "error"]
       ELSE [manager |-> [m EXCEPT !.logging_active = TRUE,
                                   !.sensor_files = @ \o [i \in DOMAIN opened |-> "open"],
                                   !.stop_flags = @ \o [i \in DOMAIN opened |-> FALSE],
                                   !.sensor_threads = @ \o [i \in DOMAIN running |-> running[i].name]],
             device |-> [dev EXCEPT !.logging = TRUE],
             steps |-> made, ret |-> "acquisition_started"]

StartAcquisition(name, description, sensors, fail) ==
  /\ Len(manager.sensor_files) + Len(sensors) <= MaxOpenFiles
  /\ \E r \in {start_acquisition(manager, device, name, description, sensors, fail)} :
       /\ manager' = r.manager
       /\ device' = r.device
       /\ last' = [op |-> "start_acquisition", steps |-> r.steps, ret |-> r.ret]
  /\ UNCHANGED <<storeVars, threads, classifierVars, analysisVars>>

\* DataLog2Manager.stop_acquisition (lines 383-439).  Setting the stop flags
\* and closing the files cannot raise (a failing close is swallowed).
stop_acquisition(m, dev, fail) ==
  IF ~is_connected(m) THEN [manager |-> m, device |-> dev, steps |-> <<>>, ret |-> "error"]
  ELSE IF ~m.logging_active
    THEN [manager |-> m, device |-> dev, steps |-> <<>>, ret |-> "no_acquisition_running"]
  ELSE
    LET calls == <<"stop_log", "save_json_device_file", "save_json_acq_info_file",
                   "get_acquisition_folder", "clear", "listdir">>
        made == CallsUpTo(calls, fail)
        raised == \E k \in DOMAIN calls : calls[k] = fail
        stopped == fail # "stop_log"
        cleared == \E k \in DOMAIN made : made[k] = "clear"
        flagged == [m EXCEPT !.stop_flags = [i \in DOMAIN @ |-> TRUE],
                             !.sensor_files = [i \in DOMAIN @ |-> "closed"]]
    IN [manager |-> IF cleared
                    THEN [flagged EXCEPT !.stop_flags = <<>>, !.sensor_threads = <<>>,
                                         !.sensor_files = <<>>, !.logging_active = FALSE]
                    ELSE [flagged EXCEPT !.logging_active = FALSE],
        device |-> [dev EXCEPT !.logging = @ /\ ~stopped],
        steps |-> <<"set_stop_flags", "close_files">> \o made,
        ret |-> IF raised THEN "error" ELSE "acquisition_stopped"]

StopAcquisition(fail) ==
  /\ \E r \in {stop_acquisition(manager, device, fail)} :
       /\ manager' = r.manager
       /\ device' = r.device
       /\ last' = [op |-> "stop_acquisition", steps |-> r.steps, ret |-> r.ret]
  /\ UNCHANGED <<storeVars, threads, classifierVars, analysisVars>>

\* disconnect that only discards the references
disconnect_drop_only(m, dev, fail) ==
  IF ~is_connected(m) THEN [manager |-> m, device |-> dev, steps |-> <<>>, ret |-> "not_connected"]
  ELSE [manager |-> [m EXCEPT !.hsd_link_instance = FALSE, !.connected = FALSE],
        device |-> dev, steps |-> <<"drop_connection">>, ret |-> "disconnected"]

\* DataLog2Manager.disconnect (lines 161-177), which the datalog2_disconnect
\* tool calls; what stop_acquisition returns is ignored
disconnect(m, dev, fail) ==
  IF ~is_connected(m) THEN [manager |-> m, device |-> dev, steps |-> <<>>, ret |-> "not_connected"]
  ELSE
    LET stop == IF m.logging_active THEN stop_acquisition(m, dev, fail)
                ELSE [manager |-> m, device |-> dev, steps |-> <<>>, ret |-> "none"]
    IN [manager |-> [stop.manager EXCEPT !.hsd_link_instance = FALSE, !.connected = FALSE],
        device |-> stop.device,
        steps |-> stop.steps \o <<"drop_connection">>,
        ret |-> "disconnected"]

Disconnect(fail) ==
  /\ \E r \in {disconnect(manager, device, fail)} :
       /\ manager' = r.manager
       /\ device' = r.device
       /\ last' = [op |-> "disconnect", steps |-> r.steps, ret |-> r.ret]
  /\ UNCHANGED <<storeVars, threads, classifierVars, analysisVars>>

NextManager ==
  \/ \E outcome \in {"ok", "no_sdk", "create_hsd_link_raises", "no_device",
                     "get_devices_raises"} : Connect(outcome)
  \/ \E name \in {None, Some("run")}, description \in {None, Some("")},
        n \in 0..MaxSensors,
        fail \in {"none", "set_acquisition_name", "start_log", "get_sensors_names",
                  "get_acquisition_folder", "path_join"} :
       \E sensors \in [1..n -> [name : {"iis3dwb_acc"}, outcome : {"ok", "open_raises", "thread_raises"}]] :
         StartAcquisition(name, description, sensors, fail)
  \/ \E fail \in {"none", "stop_log", "save_json_device_file", "save_json_acq_info_file",
                  "get_acquisition_folder", "listdir"} : StopAcquisition(fail)
  \/ \E fail \in {"none", "stop_log", "save_json_device_file", "save_json_acq_info_file",
                  "get_acquisition_folder", "listdir"} : Disconnect(fail)

SpecManager == Init /\ [][NextManager]_vars

-----------------------------------------------------------------------------
(* The value of an entry: its fields with the samples in place of the array *)

EntryValue(d, h, k) ==
  [signal |-> [shape |-> h[d.vals[k].signal].shape, data |-> h[d.vals[k].signal].data],
   sample_rate |-> d.vals[k].sample_rate,
   created_at |-> d.vals[k].created_at,
   metadata |-> d.vals[k].metadata]

-----------------------------------------------------------------------------
(* C1 *)

\* C1: in every state reached by put/put_auto/remove/get/list calls, get(id)
\* returns an entry whose signal has the shape and the samples given to the
\* last put(id) not followed by remove(id), and None when there is no such put.
C1_GetReturnsLastPut ==
  \A id \in Ids :
    LET e == get(entries, id)
    IN IF id \in DOMAIN lastPut
       THEN /\ ~IsNone(e)
            /\ heap[e[1].signal].shape = lastPut[id].signal.shape
            /\ heap[e[1].signal].data = lastPut[id].signal.data
       ELSE IsNone(e)

\* a get has returned the two samples put under an id that holds them
C1_Witness ==
  /\ call.op = "get"
  /\ ~IsNone(ret.entry)
  /\ heap[ret.entry[1].signal].data = <<-1, 1>>
  /\ lastPut[call.data_id].signal.data = <<-1, 1>>

(* C2 *)

\* C2: a put on a stored id returns the id, leaves the set of stored ids and
\* every other entry as they were, and the entry of the id afterwards has the
\* signal, the sample rate and the metadata of this call and nothing else.
C2_PutOverwrites ==
  [][\A id \in Ids :
       (call'.op = "put" /\ call'.data_id = id /\ id \in StoredIds(entries)) =>
         /\ ret' = [data_id |-> id]
         /\ StoredIds(entries') = StoredIds(entries)
         /\ Len(entries'.keys) = Len(entries.keys)
         /\ \A k \in StoredIds(entries) \ {id} :
              EntryValue(entries', heap', k) = EntryValue(entries, heap, k)
         /\ EntryValue(entries', heap', id) =
              [signal |-> lastPut'[id].signal,
               sample_rate |-> lastPut'[id].sample_rate,
               created_at |-> entries'.vals[id].created_at,
               metadata |-> MetadataOrEmpty(lastPut'[id].metadata)]]_vars

\* the last call was a put on an id that is not the newest key of the
\* dictionary, so the id was stored before the call; another entry is stored
C2_Witness ==
  /\ call.op = "put"
  /\ Len(entries.keys) = 2
  /\ entries.keys[1] = call.data_id
  /\ ret = [data_id |-> call.data_id]

(* C3 *)

\* C3: the stored ids are exactly the ids put and not removed since, whatever
\* calls were made in between.
C3_NoEviction == StoredIds(entries) = DOMAIN lastPut

\* the store is full, and reads and an analysis have been made on it
C3_Witness ==
  /\ Cardinality(StoredIds(entries)) = MaxEntries
  /\ call.op = "analyze"
  /\ ret.ok

(* C4 *)

\* the samples get(id) returns
StoredSamples(d, h, id) == h[d.vals[id].signal].data

\* C4: the samples of a stored id change only through a put of that id (or
\* the id is removed): no other step, a write by the calling code to the
\* array it passed or was handed included, changes them.
C4_StoredSignalImmutable ==
  [][\A id \in StoredIds(entries) \cap StoredIds(entries') :
       StoredSamples(entries', heap', id) # StoredSamples(entries, heap, id) =>
         call'.op \in {"put", "put_auto"} /\ call'.data_id = id]_vars

(* C5 *)

SummaryFields == {"data_id", "n_samples", "n_channels", "sample_rate_hz", "duration_s",
                  "channel_stats", "metadata"}

StatFields == {"mean", "std", "rms", "peak", "crest_factor", "kurtosis"}

\* C5: a call of list_entries returns one summary per stored id (as many
\* summaries as entries, each data_id once), each holding sizes, scalar
\* statistics per channel and metadata only, and leaves the store as it was.
C5_ListEntriesSummaries ==
  [][call'.op = "list_entries" =>
       /\ ret'.ok
       /\ Len(ret'.val) = Cardinality(StoredIds(entries))
       /\ \A id \in StoredIds(entries) :
            Cardinality({i \in DOMAIN ret'.val : ret'.val[i].data_id = id}) = 1
       /\ \A i \in DOMAIN ret'.val :
            /\ DOMAIN ret'.val[i] = SummaryFields
            /\ ret'.val[i].n_samples \in Nat
            /\ ret'.val[i].n_channels \in Nat
            /\ ret'.val[i].duration_s \in Int
            /\ \A l \in DOMAIN ret'.val[i].channel_stats :
                 /\ DOMAIN ret'.val[i].channel_stats[l] = StatFields
                 /\ \A f \in StatFields : ret'.val[i].channel_stats[l][f] \in Int
       /\ entries' = entries
       /\ heap' = heap]_vars

(* C6 *)

\* C6: whatever the threads do in between, a load_from_file of a readable
\* file returns the id with the summary of the entry that call stored, and a
\* list_entries returns (no exception).
C6_SerializedPerKey ==
  \A t \in Threads :
    threads[t].pc = "done" =>
      /\ (threads[t].op = "load_from_file" /\ ~IsNone(threads[t].stored)) =>
            /\ threads[t].res.ok
            /\ threads[t].res.summary = summary(heap, threads[t].stored[1]).val
      /\ threads[t].op = "list_entries" => threads[t].res.ok

-----------------------------------------------------------------------------
(* What the rules of the classifier are stated to be *)

\* x / rms > limit/10 for amplitudes in 1/10, the ratio of a zero rms being
\* taken against the fallback denominator 1e-12
Exceeds(x, rms, limit) == IF rms > 0 THEN 10 * x > limit * rms ELSE x > 0

UnbalanceExpected(f) ==
  Exceeds(f.amp_1x, f.rms_overall, 30) /\ f.amp_1x > 2 * f.amp_2x

MisalignmentExpected(f) ==
  Exceeds(f.amp_2x, f.rms_overall, 25) /\ 2 * f.amp_2x > f.amp_1x

LoosenessExpected(f) ==
  \/ /\ Exceeds(f.amp_1x, f.rms_overall, 15)
     /\ Exceeds(f.amp_2x, f.rms_overall, 15)
     /\ Exceeds(f.amp_3x, f.rms_overall, 15)
  \/ Exceeds(f.amp_half_x, f.rms_overall, 15)

ImpulsiveExpected(f) == f.kurtosis > 40 \/ f.crest_factor > 50

\* the confidence bearing_results gives for key k, "none" when it gives none
GivenConfidence(b, k) ==
  IF IsNone(b) THEN "none"
  ELSE IF IsNone(b[1][k]) THEN "none"
  ELSE IF IsNone(b[1][k][1].confidence) THEN "none"
  ELSE b[1][k][1].confidence[1]

BearingExpected(b) == \E i \in DOMAIN BearingKeys : GivenConfidence(b, BearingKeys[i]) # "none"

\* the places of the diagnoses of a fault type in the returned list
Places(fault_type) == {i \in DOMAIN diagnoses[1] : diagnoses[1][i].fault_type = fault_type}

(* C7 *)

\* C7: the list classify_faults returns is not empty; it holds 'healthy' if
\* and only if none of the unbalance, misalignment, looseness, impulsive and
\* bearing rules fired; and 'healthy' is then the only diagnosis, with
\* confidence 'medium'.
C7_HealthyIffNoRuleFired ==
  ~IsNone(diagnoses) =>
    /\ Len(diagnoses[1]) >= 1
    /\ Places("healthy") # {} <=>
         ~ \/ UnbalanceExpected(features[1])
           \/ MisalignmentExpected(features[1])
           \/ LoosenessExpected(features[1])
           \/ ImpulsiveExpected(features[1])
           \/ BearingExpected(bearing_results)
    /\ Places("healthy") # {} =>
         /\ Len(diagnoses[1]) = 1
         /\ diagnoses[1][1].confidence = "medium"

\* classify_faults has returned 'healthy' alone for features with 1x at
\* exactly 3.0 times the rms and bearing results of no confidence
C7_Witness ==
  /\ ~IsNone(diagnoses)
  /\ Places("healthy") = {1}
  /\ features[1].amp_1x = 6 /\ features[1].rms_overall = 2
  /\ ~IsNone(bearing_results)

(* C8 *)

ConfidenceRank(confidence) ==
  CASE confidence = "high" -> 0
    [] confidence = "medium" -> 1
    [] confidence = "low" -> 2
    [] confidence = "none" -> 3

RuleOrder == <<"unbalance", "misalignment", "mechanical_looseness", "impulsive_signal",
               "bearing_bpfo", "bearing_bpfi", "bearing_bsf", "bearing_ftf">>

RulePlace(fault_type) == CHOOSE i \in DOMAIN RuleOrder : RuleOrder[i] = fault_type

Ranked(d) == d.confidence \in {"high", "medium", "low", "none"}

\* C8: in the returned list no diagnosis precedes one of strictly better
\* rank (high < medium < low < none), and of two diagnoses of the same
\* confidence the one whose rule is evaluated first comes first.
C8_SortedByRankStable ==
  ~IsNone(diagnoses) =>
    \A i, j \in DOMAIN diagnoses[1] :
      (i < j /\ Ranked(diagnoses[1][i]) /\ Ranked(diagnoses[1][j])) =>
        /\ ConfidenceRank(diagnoses[1][i].confidence)
             <= ConfidenceRank(diagnoses[1][j].confidence)
        /\ diagnoses[1][i].confidence = diagnoses[1][j].confidence =>
             RulePlace(diagnoses[1][i].fault_type) < RulePlace(diagnoses[1][j].fault_type)

\* a returned list where the sort moved bearing diagnoses of confidence
\* 'high' before shaft diagnoses of confidence 'medium', with a 'low' behind
C8_Witness ==
  /\ ~IsNone(diagnoses)
  /\ Len(diagnoses[1]) >= 6
  /\ diagnoses[1][1].fault_type = "bearing_bpfi"
  /\ diagnoses[1][2].fault_type = "bearing_bsf"
  /\ diagnoses[1][3].fault_type = "unbalance"
  /\ diagnoses[1][4].confidence = "medium"
  /\ diagnoses[1][Len(diagnoses[1])].confidence = "low"

(* C9 *)

\* the features amp_1x = 1.0, amp_2x = 0.1, rms = 0.2
ExampleFeatures(f) == f.amp_1x = 10 /\ f.amp_2x = 1 /\ f.rms_overall = 2

\* 'unbalance' is emitted (once) if and only if amp_1x/rms > 3.0 and
\* amp_1x > 2 amp_2x, with confidence 'high' if amp_1x/rms > 5.0 and 'medium'
\* otherwise
UnbalanceAsStated ==
  /\ Places("unbalance") # {} <=> UnbalanceExpected(features[1])
  /\ Cardinality(Places("unbalance")) <= 1
  /\ \A i \in Places("unbalance") :
       diagnoses[1][i].confidence =
         IF Exceeds(features[1].amp_1x, features[1].rms_overall, 50)
         THEN "high" ELSE "medium"

\* C9 as stated: the unbalance rule, and the features amp_1x = 1.0,
\* amp_2x = 0.1, rms = 0.2 yield 'unbalance' as the first diagnosis.
C9_UnbalanceFirst ==
  ~IsNone(diagnoses) =>
    /\ UnbalanceAsStated
    /\ ExampleFeatures(features[1]) => diagnoses[1][1].fault_type = "unbalance"

\* C9 amended: the unbalance rule, and the features amp_1x = 1.0,
\* amp_2x = 0.1, rms = 0.2 yield 'unbalance' with confidence 'medium',
\* preceded by nothing but bearing diagnoses of confidence 'high' (so it is
\* the first diagnosis when the bearing results hold no such confidence).
C9_UnbalanceRule ==
  ~IsNone(diagnoses) =>
    /\ UnbalanceAsStated
    /\ ExampleFeatures(features[1]) =>
         \E i \in Places("unbalance") :
           /\ diagnoses[1][i].confidence = "medium"
           /\ \A j \in 1..(i - 1) :
                /\ diagnoses[1][j].confidence = "high"
                /\ \E k \in DOMAIN BearingKeys :
                     /\ diagnoses[1][j].fault_type = "bearing_" \o BearingKeys[k]
                     /\ GivenConfidence(bearing_results, BearingKeys[k]) = "high"
           /\ (\A k \in DOMAIN BearingKeys :
                 GivenConfidence(bearing_results, BearingKeys[k]) # "high") => i = 1

\* classify_faults has returned 'unbalance' first for the features
\* amp_1x = 1.0, amp_2x = 0.1, rms = 0.2, with other diagnoses behind it
C9_Witness ==
  /\ ~IsNone(diagnoses)
  /\ ExampleFeatures(features[1])
  /\ diagnoses[1][1].fault_type = "unbalance"
  /\ diagnoses[1][1].confidence = "medium"
  /\ Len(diagnoses[1]) >= 3

(* C10 *)

\* C10: 'misalignment' is emitted (once) if and only if amp_2x/rms > 2.5 and
\* amp_2x > 0.5 amp_1x, with confidence 'high' if amp_2x > amp_1x and
\* 'medium' otherwise.
C10_MisalignmentRule ==
  ~IsNone(diagnoses) =>
    /\ Places("misalignment") # {} <=> MisalignmentExpected(features[1])
    /\ Cardinality(Places("misalignment")) <= 1
    /\ \A i \in Places("misalignment") :
         diagnoses[1][i].confidence =
           IF features[1].amp_2x > features[1].amp_1x THEN "high" ELSE "medium"

\* classify_faults has returned 'misalignment' with confidence 'medium' for
\* 2x equal to 1x
C10_Witness ==
  /\ ~IsNone(diagnoses)
  /\ features[1].amp_2x = 6 /\ features[1].amp_1x = 6
  /\ \E i \in Places("misalignment") : diagnoses[1][i].confidence = "medium"

(* C11 *)

\* C11: for each key k of bpfo, bpfi, bsf, ftf the returned list holds a
\* diagnosis 'bearing_<k>' if and only if bearing_envelope_results holds k
\* with a confidence other than 'none'; it holds one at most, and that one
\* carries exactly the confidence given.  Keys that are absent, and absent
\* results, emit nothing.
C11_BearingRule ==
  ~IsNone(diagnoses) =>
    \A k \in DOMAIN BearingKeys :
      LET given == GivenConfidence(bearing_results, BearingKeys[k])
          places == Places("bearing_" \o BearingKeys[k])
      IN /\ places # {} <=> given # "none"
         /\ Cardinality(places) <= 1
         /\ \A i \in places : diagnoses[1][i].confidence = given

\* classify_faults has returned 'bearing_bpfo', 'bearing_bpfi' and
\* 'bearing_bsf' with the confidences given and nothing for ftf, whose result
\* has confidence 'none'
C11_Witness ==
  /\ ~IsNone(diagnoses)
  /\ GivenConfidence(bearing_results, "bpfo") = "high"
  /\ GivenConfidence(bearing_results, "bsf") = "low"
  /\ ~IsNone(bearing_results) /\ ~IsNone(bearing_results[1].ftf)
  /\ GivenConfidence(bearing_results, "ftf") = "none"
  /\ \E i \in Places("bearing_bpfo") : diagnoses[1][i].confidence = "high"
  /\ \E i \in Places("bearing_bsf") : diagnoses[1][i].confidence = "low"
  /\ Places("bearing_ftf") = {}

(* C12 *)

AllZero(s) == \A i \in DOMAIN s : s[i] = 0

Healthy == FaultDiagnosis("healthy", "medium", "No significant fault patterns detected")

\* C12: extract_shaft_features and classify_faults return for degenerate
\* input.  An all-zero spectrum gives an overall RMS of 0 and amplitudes of 0;
\* an all-zero (or absent) time signal gives a crest factor and a kurtosis of
\* 0; with an overall RMS of 0 classify_faults returns a list that is not
\* empty, its ratios taken against the fallback denominator; and an all-zero
\* spectrum with an all-zero time signal is classified as 'healthy' alone.
C12_DegenerateInput ==
  LET a == args[1]
      f == features[1]
      zeroSpectrum == AllZero(a.magnitudes)
      zeroSignal == IsNone(a.time_signal) \/ AllZero(a.time_signal[1])
  IN /\ ~IsNone(features) =>
          /\ zeroSpectrum <=> f.rms_overall = 0
          /\ zeroSpectrum =>
                f.amp_1x = 0 /\ f.amp_2x = 0 /\ f.amp_3x = 0 /\ f.amp_half_x = 0
          /\ zeroSignal => f.crest_factor = 0 /\ f.kurtosis = 0
     /\ ~IsNone(diagnoses) =>
          /\ f.rms_overall = 0 => Len(diagnoses[1]) >= 1
          /\ f.rms_overall = 0 =>
                \A i \in DOMAIN diagnoses[1] :
                  diagnoses[1][i].fault_type \in {"healthy", "impulsive_signal"}
          /\ (zeroSpectrum /\ zeroSignal) => diagnoses[1] = <<Healthy>>

\* an all-zero spectrum with an all-zero time signal of four samples has
\* been extracted and classified
C12_Witness ==
  /\ ~IsNone(diagnoses)
  /\ AllZero(args[1].magnitudes)
  /\ args[1].time_signal = Some(<<0, 0, 0, 0>>)
  /\ features[1].rms_overall = 0
  /\ features[1].crest_factor = 0
  /\ diagnoses[1] = <<Healthy>>

(* C13 *)

\* the zone of velocity v under the thresholds t: A if v <= t_A, else B if
\* v <= t_B, else C if v <= t_C, else D
ZoneOf(v, t) ==
  CASE v <= t[1] -> "A"
    [] v > t[1] /\ v <= t[2] -> "B"
    [] v > t[2] /\ v <= t[3] -> "C"
    [] OTHER -> "D"

\* the thresholds (t_A, t_B, t_C) of the groups in mm/s * 100
GroupThresholds(g) ==
  CASE g = "group1" -> <<280, 710, 1800>>
    [] g = "group3" -> <<350, 900, 2240>>
    [] g = "group4" -> <<71, 180, 450>>
    [] OTHER -> <<140, 280, 710>>

Assessed == ~IsNone(out) /\ args[1].op = "assess_vibration_severity"

\* C13: for every velocity v and machine group g the zone returned is A if
\* v <= t_A, else B if v <= t_B, else C if v <= t_C, else D, with the
\* thresholds of g for group1..group4 and those of group2 for any other name.
C13_IsoZones ==
  Assessed =>
    out[1].iso_zone = ZoneOf(args[1].rms_velocity_mm_s, GroupThresholds(args[1].machine_group))

\* a velocity equal to the alarm threshold of group3 has been assessed as C,
\* and one equal to a threshold of group2 under an unknown group name
C13_Witness ==
  /\ Assessed
  /\ \/ /\ args[1].machine_group = "group3"
        /\ args[1].rms_velocity_mm_s = 2240
        /\ out[1].iso_zone = "C"
     \/ /\ args[1].machine_group = "group5"
        /\ args[1].rms_velocity_mm_s = 140
        /\ out[1].iso_zone = "A"

(* C14 *)

\* C14 as stated: in group4 a velocity of 1.0 mm/s is zone A and one of 5.0
\* mm/s is zone D.
C14_Group4Examples ==
  (Assessed /\ args[1].machine_group = "group4") =>
    /\ args[1].rms_velocity_mm_s = 100 => out[1].iso_zone = "A"
    /\ args[1].rms_velocity_mm_s = 500 => out[1].iso_zone = "D"

\* C14 amended: in group4, whose thresholds are 0.71/1.8/4.5, a velocity of
\* 1.0 mm/s is zone B (it is above 0.71 and not above 1.8) and one of 5.0
\* mm/s is zone D.
C14_Group4Zones ==
  (Assessed /\ args[1].machine_group = "group4") =>
    /\ out[1].thresholds = [A_good |-> 71, B_acceptable |-> 180, C_alarm |-> 450]
    /\ args[1].rms_velocity_mm_s = 100 => out[1].iso_zone = "B"
    /\ args[1].rms_velocity_mm_s = 500 => out[1].iso_zone = "D"

\* 1.0 mm/s has been assessed in group4
C14_Witness ==
  /\ Assessed
  /\ args[1].machine_group = "group4"
  /\ args[1].rms_velocity_mm_s = 100
  /\ out[1].iso_zone = "B"

(* C15 *)

PeaksChecked == ~IsNone(out) /\ args[1].op = "check_bearing_peaks"

\* harmonic h is to be counted: a bin lies within h f - tol .. h f + tol,
\* tol = h f * 3 / 100, and a magnitude in that window exceeds three times
\* the median of the magnitudes
HarmonicExpected(a, h) ==
  \E i \in DOMAIN a.freqs :
    /\ 100 * a.freqs[i] >= 97 * h * a.target_freq
    /\ 100 * a.freqs[i] <= 103 * h * a.target_freq
    /\ 2 * a.magnitudes[i] > 3 * MedianTwice(a.magnitudes)

\* C15: harmonic h of 1..n_harmonics is detected if and only if a bin lies
\* in its tolerance window and the largest magnitude there strictly exceeds
\* median * multiplier; the confidence is 'high' iff two or more harmonics
\* are detected, 'medium' iff exactly one, 'none' iff none; and
\* harmonics_detected does not exceed harmonics_checked.
C15_BearingPeaks ==
  PeaksChecked =>
    LET a == args[1]
        r == out[1]
        expected == {h \in 1..a.n_harmonics : HarmonicExpected(a, h)}
    IN /\ DOMAIN r.details = 1..a.n_harmonics
       /\ \A h \in 1..a.n_harmonics : r.details[h].detected <=> h \in expected
       /\ r.harmonics_detected = Cardinality(expected)
       /\ r.harmonics_checked = a.n_harmonics
       /\ r.harmonics_detected <= r.harmonics_checked
       /\ r.confidence = "high" <=> Cardinality(expected) >= 2
       /\ r.confidence = "medium" <=> Cardinality(expected) = 1
       /\ r.confidence = "none" <=> Cardinality(expected) = 0

\* three harmonics were checked and two detected, the second in the bin on
\* the upper edge of its window, the third missing a bin altogether
C15_Witness ==
  /\ PeaksChecked
  /\ args[1].n_harmonics = 3
  /\ out[1].harmonics_detected = 2
  /\ out[1].confidence = "high"
  /\ out[1].details[2].found_hz = Some(2060)
  /\ out[1].details[3].found_hz = None

(* C16 *)

\* the fourth standardized moment m4 / m2^2 of a signal with spread, in
\* 1/FeatScale rounded down: m2 and m4 the means of the squares and of the
\* fourth powers of the deviations from the mean, taken n and n^3 times over
\* the deviations n x - sum
FourthStandardizedMoment(ts) ==
  LET n == Len(ts)
      dev == [i \in DOMAIN ts |-> n * ts[i] - SumSeq(ts)]
      m2 == SumSeq(Squares(dev))
      m4 == SumSeq(Squares(Squares(dev)))
  IN CHOOSE k \in 0..(FeatScale * n) :
       k * m2 * m2 <= FeatScale * n * m4 /\ FeatScale * n * m4 < (k + 1) * m2 * m2

HasSpread(ts) == \E i, j \in DOMAIN ts : ts[i] # ts[j]

Extracted == ~IsNone(features) /\ args[1].op = "extract_shaft_features"

\* C16 as stated: the kurtosis feature of a time signal with spread is the
\* fourth standardized moment minus 3.
C16_ExcessKurtosis ==
  (/\ Extracted
   /\ ~IsNone(args[1].time_signal)
   /\ HasSpread(args[1].time_signal[1])) =>
    features[1].kurtosis = FourthStandardizedMoment(args[1].time_signal[1]) - 3 * FeatScale

\* C16 amended: the kurtosis feature of a time signal with spread is the
\* fourth standardized moment itself, with nothing subtracted (about 3 for
\* a Gaussian-like signal), and it is this value that the classifier
\* compares with 4.0: 'impulsive_signal' is emitted if and only if it exceeds
\* 4.0 or the crest factor exceeds 5.0.
C16_KurtosisFeature ==
  Extracted =>
    /\ (~IsNone(args[1].time_signal) /\ HasSpread(args[1].time_signal[1])) =>
         features[1].kurtosis = FourthStandardizedMoment(args[1].time_signal[1])
    /\ ~IsNone(diagnoses) =>
         (Places("impulsive_signal") # {} <=>
            (features[1].kurtosis > 40 \/ features[1].crest_factor > 50))

\* the single impulse among eight samples, of fourth standardized moment
\* 6.1 (3.1 once 3 is subtracted) and crest factor 2.8, has been classified
\* as impulsive
C16_Witness ==
  /\ Extracted
  /\ args[1].time_signal = Some(<<0, 0, 0, 0, 0, 0, 0, 4>>)
  /\ features[1].kurtosis = 61
  /\ features[1].crest_factor = 28
  /\ ~IsNone(diagnoses)
  /\ Places("impulsive_signal") # {}

(* C17 *)

\* C17: find_peaks_in_spectrum returns at most num_peaks peaks in the order
\* of descending amplitude; of two returned peaks of equal amplitude the one
\* of lower frequency comes first; and where more peaks tie at the cut-off
\* than are returned, the ones of lower frequency are kept.
C17_PeaksByAmplitudeThenFrequency ==
  (~IsNone(out) /\ args[1].op = "find_peaks_in_spectrum") =>
    LET peaks == out[1].peaks
        found == {[frequency_hz |-> args[1].frequencies[i],
                   magnitude |-> args[1].magnitude[i]] :
                    i \in SpectralPeakIndices(args[1].magnitude)}
    IN /\ Len(peaks) <= args[1].num_peaks
       /\ \A i, j \in DOMAIN peaks :
            i < j =>
              /\ peaks[i].magnitude >= peaks[j].magnitude
              /\ peaks[i].magnitude = peaks[j].magnitude =>
                   peaks[i].frequency_hz < peaks[j].frequency_hz
       /\ \A p \in found \ Range(peaks) :
            \A j \in DOMAIN peaks :
              peaks[j].magnitude = p.magnitude => peaks[j].frequency_hz < p.frequency_hz

(* C18 *)

Diagnosed ==
  /\ ~IsNone(out)
  /\ args[1].op = "diagnose_vibration"
  /\ "error" \notin DOMAIN out[1]

Supplied(v) == ~IsNone(v) /\ v[1] > 0

\* the source of highest priority that the call supplies: absolute Hz, then
\* orders, then the custom geometry, then the designation of the catalog
ChosenSource(a) ==
  IF \E k \in Range(BearingKeys) : Supplied(a.hz[k]) THEN "hz"
  ELSE IF \E k \in Range(BearingKeys) : Supplied(a.order[k]) THEN "order"
  ELSE IF Supplied(a.bearing_n_balls) /\ Supplied(a.bearing_ball_dia_mm)
          /\ Supplied(a.bearing_pitch_dia_mm) THEN "geometry"
  ELSE IF ~IsNone(a.bearing_designation) /\ a.bearing_designation[1] # ""
          /\ ~IsNone(get_bearing(a.bearing_designation[1])) THEN "database"
  ELSE "none"

\* the frequencies the source gives, by key
FrequenciesFrom(source, a) ==
  CASE source = "hz" ->
         [k \in {k \in Range(BearingKeys) : Supplied(a.hz[k])} |-> [hz |-> a.hz[k][1]]]
    [] source = "order" ->
         [k \in {k \in Range(BearingKeys) : Supplied(a.order[k])} |->
            [hz |-> (a.order[k][1] * (a.rpm \div 6)) \div 10]]
    [] source = "geometry" ->
         BearingFrequenciesOf(a.rpm, a.bearing_n_balls[1], a.bearing_ball_dia_mm[1],
                              a.bearing_pitch_dia_mm[1], a.bearing_contact_angle_deg)
    [] source = "database" ->
         LET bearing == get_bearing(a.bearing_designation[1])[1]
         IN BearingFrequenciesOf(a.rpm, bearing.n_balls, bearing.ball_dia, bearing.pitch_dia,
                                 bearing.contact_angle)
    [] OTHER -> <<>>

SourceName(source, a) ==
  CASE source = "hz" -> Some("user-provided frequencies")
    [] source = "order" -> Some("user-provided orders")
    [] source = "geometry" -> Some("custom geometry")
    [] source = "database" ->
         Some("database (" \o get_bearing(a.bearing_designation[1])[1].name \o ")")
    [] OTHER -> None

\* C18: the fault frequencies diagnose_vibration checks are those of one
\* source, the one of highest priority among absolute Hz, orders, custom
\* geometry and catalog that the call supplies; no other source contributes
\* a frequency; and bearing_info_source names that source.
C18_SingleSourceByPriority ==
  Diagnosed =>
    LET source == ChosenSource(args[1])
        expected == FrequenciesFrom(source, args[1])
    IN /\ out[1].bearing_info_source = SourceName(source, args[1])
       /\ IF DOMAIN expected = {} THEN out[1].bearing_analysis = None
          ELSE /\ ~IsNone(out[1].bearing_analysis)
               /\ DOMAIN out[1].bearing_analysis[1] = DOMAIN expected
               /\ \A k \in DOMAIN expected :
                    out[1].bearing_analysis[1][k].target_frequency_hz = expected[k]

(* C19 *)

\* the designation given is not in the catalog once in upper case
UnknownDesignation(designation) ==
  \A i \in DOMAIN COMMON_BEARINGS : COMMON_BEARINGS[i].designation # Upper(designation)

\* the result is an error that carries the designations of the catalog
NotFoundError(result) ==
  /\ "error" \in DOMAIN result
  /\ "available" \in DOMAIN result
  /\ Range(result.available) = {COMMON_BEARINGS[i].designation : i \in DOMAIN COMMON_BEARINGS}

\* C19: a designation that is not in the catalog is answered by an error
\* carrying the known designations, by lookup_bearing_and_compute and by
\* diagnose_vibration given the designation as its only bearing information.
C19_UnknownDesignationIsAnError ==
  ~IsNone(out) =>
    /\ (/\ args[1].op = "lookup_bearing_and_compute"
        /\ UnknownDesignation(args[1].designation)) => NotFoundError(out[1])
    /\ (/\ args[1].op = "diagnose_vibration"
        /\ IsNone(args[1].data_id)
        /\ ChosenSource(args[1]) = "none"
        /\ ~IsNone(args[1].bearing_designation)
        /\ args[1].bearing_designation[1] # ""
        /\ UnknownDesignation(args[1].bearing_designation[1])) => NotFoundError(out[1])

(* C20 *)

\* C20: a tool called with a data_id that is not in the store returns an
\* error listing the ids stored and nothing it computed, and leaves the
\* store as it was, whether or not a raw signal is passed too.
C20_UnknownIdIsAnError ==
  [][(/\ call'.op \in AnalysisTools
      /\ ~IsNone(call'.data_id)
      /\ call'.data_id[1] \notin StoredIds(entries))
     => /\ DOMAIN ret' = {"error"}
        /\ ret'.error.available = entries.keys
        /\ Range(ret'.error.available) = StoredIds(entries)
        /\ entries' = entries
        /\ heap' = heap]_vars

\* diagnose_vibration has been called with an id that is not stored and with
\* a raw signal, while another id is stored, and has returned the error
\* naming the stored id
C20_Witness ==
  /\ call.op = "diagnose_vibration"
  /\ ~IsNone(call.data_id)
  /\ call.data_id[1] \notin StoredIds(entries)
  /\ ~IsNone(call.signal)
  /\ StoredIds(entries) # {}
  /\ DOMAIN ret = {"error"}
  /\ Range(ret.error.available) = StoredIds(entries)

(* C21 *)

\* check_bearing_faults_direct has returned, and the call gave it a
\* spectrum to look into
DirectChecked ==
  /\ ~IsNone(out)
  /\ args[1].op = "check_bearing_faults_direct"
  /\ IF IsNone(args[1].data_id)
     THEN ~IsNone(args[1].frequencies) /\ ~IsNone(args[1].amplitudes)
     ELSE resolve_signal(entries, heap, args[1].data_id, None, None, args[1].channel).ok

\* the frequency is supplied as an order and by no positive Hz value
OrderOnly(a, k) == Supplied(a.order[k]) /\ ~Supplied(a.hz[k])

UsableRpm(a) == ~IsNone(a.rpm) /\ a.rpm[1] > 0

\* C21: when some fault frequency is supplied only as an order and rpm is
\* missing or not positive, check_bearing_faults_direct returns an error
\* that names rpm and the result of no peak check; otherwise every supplied
\* frequency is checked at its positive Hz value if it has one and at
\* order * rpm / 60 if not.
C21_OrdersNeedRpm ==
  DirectChecked =>
    LET a == args[1]
        keys == Range(BearingKeys)
        supplied == {k \in keys : Supplied(a.hz[k]) \/ Supplied(a.order[k])}
        target(k) == IF Supplied(a.hz[k]) THEN a.hz[k][1]
                     ELSE (a.order[k][1] * a.rpm[1] * 10) \div 600
    IN /\ ((\E k \in keys : OrderOnly(a, k)) /\ ~UsableRpm(a))
            => /\ DOMAIN out[1] = {"error"}
               /\ \E k \in keys :
                    /\ OrderOnly(a, k)
                    /\ out[1].error.message =
                         k \o "_order was provided but rpm is missing. Supply rpm to convert orders to Hz."
       /\ (supplied # {} /\ ((\E k \in keys : OrderOnly(a, k)) => UsableRpm(a)))
            => /\ "error" \notin DOMAIN out[1]
               /\ DOMAIN out[1].checks = supplied
               /\ \A k \in supplied :
                    /\ out[1].checks[k].target_frequency_hz = target(k)
                    /\ out[1].checks[k] =
                         check_bearing_peaks(a.frequencies[1], a.amplitudes[1], target(k),
                                             a.n_harmonics, TolerancePct, NoiseFloorMultiplier)

\* a call with one frequency as an order only, another as a positive Hz
\* value and a shaft speed that is missing, zero or negative has returned
\* the error
C21_Witness ==
  /\ DirectChecked
  /\ ~UsableRpm(args[1])
  /\ Supplied(args[1].hz["ftf"])
  /\ OrderOnly(args[1], "bsf")
  /\ DOMAIN out[1] = {"error"}

\* a call with a usable rpm, an order and a Hz value for the same frequency
\* has checked it at the Hz value, and the order of another frequency has
\* been converted and found in the spectrum
C21_WitnessConverted ==
  /\ DirectChecked
  /\ UsableRpm(args[1])
  /\ Supplied(args[1].hz["bpfo"])
  /\ Supplied(args[1].order["bpfo"])
  /\ OrderOnly(args[1], "bsf")
  /\ out[1].checks["bpfo"].target_frequency_hz = args[1].hz["bpfo"][1]
  /\ out[1].checks["bsf"].target_frequency_hz = 2000
  /\ out[1].checks["bsf"].harmonics_detected >= 1

(* C22 *)

\* C22: a tool that resolves a time signal (from a raw list or from a stored
\* data_id) computes on it only if the signal has samples and the sample
\* rate is positive, and returns an error otherwise.
C22_InvalidInputFailsFast ==
  [][(/\ call'.op \in AnalysisTools
      /\ ~IsNone(call'.data_id) \/ call'.op \notin {"check_bearing_fault_peak",
                                                    "check_bearing_faults_direct"}
      /\ "error" \notin DOMAIN ret')
     => /\ Len(ret'.computed_on) > 0
        /\ ret'.sample_rate > 0]_vars

(* C23 *)

\* the column a channel names: X, Y, Z are columns 0, 1, 2 whatever the
\* case, CH{i} and the index i are column i
NamedColumn(channel) ==
  CASE Upper(channel) = "X" -> Some(0)
    [] Upper(channel) = "Y" -> Some(1)
    [] Upper(channel) = "Z" -> Some(2)
    [] Upper(channel) = "CH1" -> Some(1)
    [] IsDigit(channel) -> Some(IntOf(channel))
    [] OTHER -> None

\* C23: a tool called on a stored signal of several channels computes on the
\* column the channel names, and on no column when the channel names none
\* of the signal's columns.
C23_ChannelSelectsItsColumn ==
  (/\ call.op \in AnalysisTools
   /\ ~IsNone(call.data_id)
   /\ call.data_id[1] \in StoredIds(entries)
   /\ NCols(heap[entries.vals[call.data_id[1]].signal]) > 1)
  => LET a == heap[entries.vals[call.data_id[1]].signal]
         named == NamedColumn(call.channel)
     IN IF ~IsNone(named) /\ named[1] < NCols(a)
        THEN /\ "error" \notin DOMAIN ret
             /\ ret.computed_on = Column(a, named[1])
        ELSE "computed_on" \notin DOMAIN ret

(* C24 *)

\* compute_bearing_frequencies has returned
FrequenciesComputed == ~IsNone(out) /\ args[1].op = "compute_bearing_frequencies"

\* a < b for two float values
FloatLess(a, b) ==
  LET e0 == Min(a.e, b.e) IN a.m * 2^(a.e - e0) < b.m * 2^(b.e - e0)

\* the distance of two float values, in units of the last place of the
\* float value unit
UlpsApart(a, b, unit) ==
  LET e0 == Min(Min(a.e, b.e), unit.e)
  IN Abs(a.m * 2^(a.e - e0) - b.m * 2^(b.e - e0)) \div 2^(unit.e - e0)
     + (IF Abs(a.m * 2^(a.e - e0) - b.m * 2^(b.e - e0)) % 2^(unit.e - e0) = 0 THEN 0 ELSE 1)

\* (rpm / 60) * n_balls * ball_dia / pitch_dia, computed as written
RaceDifference(a) ==
  Float("/", Float("*", Float("*", Float("/", Float("float", a.rpm, 0), Float("float", 60, 0)),
                                Float("float", a.n_balls, 0)),
                   Float("float", a.ball_dia, 0)),
        Float("float", a.pitch_dia, 0))

C25_StandaloneAgrees ==
  (/\ ~IsNone(features)
   /\ IsNone(bearing_results)
   /\ ~IsNone(diagnoses)
   /\ ~IsNone(out))
  => {<<d.fault_type, d.confidence>> : d \in Range(diagnoses[1])}
       = {<<d.type, d.confidence>> : d \in Range(out[1].faults)}

(* C28 *)

\* C28: no output of classify_faults holds both an unbalance and a
\* misalignment diagnosis, whatever the RMS and the other features are, and
\* no fault type appears twice in an output.
C28_UnbalanceExcludesMisalignment ==
  ~IsNone(diagnoses) =>
    LET ds == diagnoses[1]
    IN /\ ~(/\ \E i \in DOMAIN ds : ds[i].fault_type = "unbalance"
            /\ \E i \in DOMAIN ds : ds[i].fault_type = "misalignment")
       /\ \A i, j \in DOMAIN ds : i # j => ds[i].fault_type # ds[j].fault_type

\* an unbalance has been diagnosed on features whose 2x amplitude is, against
\* the RMS, high enough for a misalignment (and too low against 1x), together
\* with a looseness and two bearing defects
C28_Witness ==
  /\ ~IsNone(diagnoses)
  /\ Exceeds(features[1].amp_2x, features[1].rms_overall, 25)
  /\ \E i \in DOMAIN diagnoses[1] : diagnoses[1][i].fault_type = "unbalance"
  /\ \E i \in DOMAIN diagnoses[1] : diagnoses[1][i].fault_type = "mechanical_looseness"
  /\ Cardinality({i \in DOMAIN diagnoses[1] :
                    diagnoses[1][i].fault_type \in {"bearing_bpfo", "bearing_bpfi"}}) = 2

(* C27 *)

\* the first PrefixBytes bytes of an array
Prefix(a) == SubSeq(tobytes(a), 1, Min(PrefixBytes, Len(tobytes(a))))

\* C27: the id put_auto returns depends on the first 1024 bytes of the
\* signal and on the time in whole seconds modulo 100000 only.  A call whose
\* signal has the prefix of a stored entry's signal, in the same second or a
\* multiple of 100000 s later, returns that entry's id and overwrites it: the
\* store holds one entry for the two calls.  A call that differs from a
\* stored entry in the hash of the prefix or in the time suffix returns
\* another id and leaves that entry in the store beside its own.
C27_AutoIdOfPrefixAndSecond ==
  [][call'.op = "put_auto" =>
       \A new \in {entries'.vals[call'.data_id]} :
       \A new_prefix \in {Prefix(heap'[new.signal])} :
       \A new_hash \in {md5hex8(new_prefix)} :
         /\ ret'.data_id = call'.data_id
         /\ call'.data_id = "sig_" \o new_hash \o "_" \o ToString(new.created_at % TimeMod)
         /\ \A k \in StoredIds(entries) :
              \A old \in {entries.vals[k]} :
              \A old_prefix \in {Prefix(heap[old.signal])} :
                /\ (/\ old_prefix = new_prefix
                    /\ old.created_at % TimeMod = new.created_at % TimeMod)
                     => /\ call'.data_id = k
                        /\ StoredIds(entries') = StoredIds(entries)
                        /\ entries'.keys = entries.keys
                        /\ heap'[new.signal].data = lastPut'[k].signal.data
                /\ (\/ md5hex8(old_prefix) # new_hash
                    \/ old.created_at % TimeMod # new.created_at % TimeMod)
                     => /\ call'.data_id # k
                        /\ {k, call'.data_id} \subseteq StoredIds(entries')
                        /\ entries'.vals[k].created_at = old.created_at]_vars

\* put_auto has been called at TimeMod seconds with a signal whose last
\* sample is 2 and has replaced the only entry of the store, which was made
\* at 0 s: the store holds one entry, with the signal and the time of this
\* call
C27_Witness ==
  /\ call.op = "put_auto"
  /\ ~IsNone(call.replaced)
  /\ call.replaced[1].created_at = 0
  /\ Cardinality(StoredIds(entries)) = 1
  /\ entries.vals[call.data_id].created_at = TimeMod
  /\ heap[entries.vals[call.data_id].signal].data[129] = 2

(* C26 *)
\* DataLog2Manager.disconnect on a connected manager with a running
\* acquisition first sets the stop flags, closes the data files and sends
\* stop_log to the device, and drops the connection as its last step; after
\* any disconnect, is_connected is false and logging_active is false.
C26_DisconnectStopsFirst ==
  [][last'.op = "disconnect" =>
       /\ ~is_connected(manager')
       /\ ~manager'.logging_active
       /\ is_connected(manager) /\ manager.logging_active =>
            /\ last'.ret = "disconnected"
            /\ Len(last'.steps) >= 4
            /\ SubSeq(last'.steps, 1, 3) = <<"set_stop_flags", "close_files", "stop_log">>
            /\ \A i \in DOMAIN last'.steps :
                 last'.steps[i] = "drop_connection" <=> i = Len(last'.steps)
            /\ \A i \in DOMAIN manager'.stop_flags : manager'.stop_flags[i]
            /\ \A i \in DOMAIN manager'.sensor_files : manager'.sensor_files[i] = "closed"]_vars

\* a disconnect that stopped a running acquisition, every call returning
C26_Witness ==
  /\ last.op = "disconnect"
  /\ last.steps = <<"set_stop_flags", "close_files", "stop_log", "save_json_device_file",
                    "save_json_acq_info_file", "get_acquisition_folder", "clear", "listdir",
                    "drop_connection">>
  /\ ~device.logging
  /\ ~is_connected(manager)

\* a disconnect during which stop_log raised: the steps were taken all the same
C26_WitnessStopLogRaised ==
  /\ last.op = "disconnect"
  /\ last.steps = <<"set_stop_flags", "close_files", "stop_log", "drop_connection">>
  /\ manager.stop_flags # <<>>

(* C29 *)
\* Whenever the device is logging (start_log succeeded and stop_log has not
\* succeeded since), logging_active is true; and stop_acquisition never
\* answers 'no_acquisition_running' while the device is logging.
C29_FlagTracksDevice ==
  /\ device.logging => manager.logging_active
  /\ ~(last.op = "stop_acquisition" /\ last.ret = "no_acquisition_running" /\ device.logging)

(* C30 *)
\* Whenever logging_active is false, the lists of stop flags, sensor threads
\* and sensor files are all empty.
C30_NoLeftoverResources ==
  ~manager.logging_active =>
    /\ manager.stop_flags = <<>>
    /\ manager.sensor_threads = <<>>
    /\ manager.sensor_files = <<>>

====
